---- MODULE Spec2Model ----
(***************************************************************************)
(* Verification model of dbus-ble-sensors-py: the register decoder of      *)
(* BleDevice (load_int, load_str, _parse_manufacturer_data), the dynamic   *)
(* register table of BleDeviceTeltonika (_compute_regs) and the scan       *)
(* callback of DbusBleSensors with the role services it drives.            *)
(*                                                                         *)
(* Python values are modelled as follows.                                  *)
(*   - An optional dictionary key (reg.get(k, None)) is a set with at most *)
(*     one element: {} is "key missing / None", {v} is the value v.        *)
(*   - A number is an exact rational [n, d] (d > 0, lowest terms): Python  *)
(*     true division yields floats, compared here as rationals.            *)
(*   - A decoded value is a record [k, n, d, s]: k is "None", "num",       *)
(*     "bool", "str" or the name of the exception that was raised.         *)
(***************************************************************************)
EXTENDS Integers, Sequences, FiniteSets, TLC

VARIABLES
    \* field decoder: one register, one payload, the result of the last call
    reg, data, out, op,
    \* device decoder: the class and configuration of one device instance,
    \* the payload and the result of the last _parse_manufacturer_data
    cls, info, payload, res, dop,
    \* scanner: DbusBleSensors._known_mac and _ignored_mac, the record of the
    \* last _scan_callback, the MACs whose init() raised a configuration
    \* error and the number of instances constructed for each MAC
    known_mac, ignored_mac, cb, failed, inits

decVars == <<reg, data, out, op>>
devVars == <<cls, info, payload, res, dop>>
scanVars == <<known_mac, ignored_mac, cb, failed, inits>>

vars == <<reg, data, out, op, cls, info, payload, res, dop,
          known_mac, ignored_mac, cb, failed, inits>>

----------------------------------------------------------------------------
(* Bounds of the model                                                     *)

\* longest manufacturer payload handed to the field decoder
MaxLen == 3
\* largest byte offset of a register of the field decoder's domain
MaxOffset == 1
\* longest payload handed to a device with a static register table
MaxTableLen == 2
\* longest body (the bytes after version and flags) of a Teltonika payload
MaxBody == 9
\* most instances constructed for one MAC
MaxInits == 2
\* most pending inactivity timers of one role service that nothing refers to
MaxStale == 1

----------------------------------------------------------------------------
(* Arithmetic                                                              *)

Abs(x) == IF x < 0 THEN -x ELSE x

RECURSIVE Gcd(_, _)
Gcd(a, b) == IF b = 0 THEN a ELSE Gcd(b, a % b)

\* the rational n/d in lowest terms with a positive denominator
Rat(n, d) ==
    LET g == Gcd(Abs(n), Abs(d))
        sgn == IF d < 0 THEN -1 ELSE 1
    IN  [n |-> sgn * (n \div g), d |-> sgn * (d \div g)]

RatInt(i) == [n |-> i, d |-> 1]
RatAdd(a, b) == Rat(a.n * b.d + b.n * a.d, a.d * b.d)
RatDiv(a, b) == Rat(a.n * b.d, a.d * b.n)
RatLess(a, b) == a.n * b.d < b.n * a.d

\* Python's & on integers (two's complement, unbounded) for a mask b >= 0
RECURSIVE BitAnd(_, _)
BitAnd(a, b) ==
    IF b = 0 \/ a = 0 THEN 0
    ELSE (a % 2) * (b % 2) + 2 * BitAnd(a \div 2, b \div 2)

----------------------------------------------------------------------------
(* Decoded values                                                          *)

NoneVal == [k |-> "None", n |-> 0, d |-> 1, s |-> <<>>]
NumVal(r) == [k |-> "num", n |-> r.n, d |-> r.d, s |-> <<>>]
BoolVal(b) == [k |-> "bool", n |-> IF b THEN 1 ELSE 0, d |-> 1, s |-> <<>>]
StrVal(cps) == [k |-> "str", n |-> 0, d |-> 1, s |-> cps]
Raised(exc) == [k |-> exc, n |-> 0, d |-> 1, s |-> <<>>]

IsRaise(v) == v.k \notin {"None", "num", "bool", "str"}
ValRat(v) == [n |-> v.n, d |-> v.d]

----------------------------------------------------------------------------
(* Registers                                                               *)

ALLOWED_TYPES ==
    {"Boolean", "Byte", "Int16", "UInt16", "Int32", "UInt32", "Int64", "UInt64",
     "Double", "String"}

SIGNED_TYPES == {"Int16", "Int32", "Int64"}

Reg(name, type, offset, bits, mask, shift, scale, bias, flags, xlate, inval, roles) ==
    [name |-> name, type |-> type, offset |-> offset, bits |-> bits, mask |-> mask,
     shift |-> shift, scale |-> scale, bias |-> bias, flags |-> flags,
     xlate |-> xlate, inval |-> inval, roles |-> roles]

Get(o) == CHOOSE x \in o : TRUE

\* an entry of info['settings'] and an entry of info['alarms']; update names
\* the callback
Setting(name, def, min, max) ==
    [name |-> name, props |-> [def |-> def, min |-> min, max |-> max]]

Alarm(name, update) == [name |-> name, update |-> update]

\* the match statement of load_int: the width a type stands for, if any
TypeBits(t) ==
    CASE t \in {"Boolean", "Byte"} -> {8}
      [] t \in {"Int16", "UInt16"} -> {16}
      [] t \in {"Int32", "UInt32"} -> {32}
      [] t \in {"Int64", "UInt64"} -> {64}
      [] OTHER -> {}

\* int.from_bytes(b, byteorder, signed)
RECURSIVE BigEndian(_)
BigEndian(b) ==
    IF Len(b) = 0 THEN 0
    ELSE 256 * BigEndian(SubSeq(b, 1, Len(b) - 1)) + b[Len(b)]

RECURSIVE LittleEndian(_)
LittleEndian(b) ==
    IF Len(b) = 0 THEN 0 ELSE b[1] + 256 * LittleEndian(Tail(b))

\* int.from_bytes that reads every span as little-endian
FromBytes_Little(b, big, signed) ==
    LET u == LittleEndian(b)
        top == 2 ^ (8 * Len(b))
    IN  IF signed /\ Len(b) > 0 /\ 2 * u >= top THEN u - top ELSE u

FromBytes(b, big, signed) ==
    LET u == IF big THEN BigEndian(b) ELSE LittleEndian(b)
        top == 2 ^ (8 * Len(b))
    IN  IF signed /\ Len(b) > 0 /\ 2 * u >= top THEN u - top ELSE u

\* manufacturer_data[offset:offset + size], for 0 <= offset and
\* offset + size <= len(manufacturer_data)
Slice(b, offset, size) == SubSeq(b, offset + 1, offset + size)

\* BleDeviceTeltonika._byteToSignedInt
ByteToSignedInt(v) == IF RatLess(v, RatInt(128)) THEN v ELSE RatAdd(v, RatInt(-256))

\* xlate(value): the translation functions the device classes declare
Xlate(name, v) == IF name = "_byteToSignedInt" THEN ByteToSignedInt(v) ELSE v

----------------------------------------------------------------------------
(* BleDevice.load_int                                                      *)

\* MaskShift with the shift and trim applied before the mask
MaskShift_ShiftFirst(r, raw, nb) ==
    LET shifted == IF r.shift # {}
                   THEN BitAnd(raw \div (2 ^ Get(r.shift)), (2 ^ nb) - 1)
                   ELSE raw
    IN  IF r.mask # {} THEN BitAnd(shifted, Get(r.mask)) ELSE shifted

\* the shift without the trim on the bits size
MaskShift_NoTrim(r, raw, nb) ==
    LET masked == IF r.mask # {} THEN BitAnd(raw, Get(r.mask)) ELSE raw
    IN  IF r.shift # {} THEN masked \div (2 ^ Get(r.shift)) ELSE masked

\* "Applying mask, if any" then "Applying shift and triming on bits size"
MaskShift(r, raw, nb) ==
    LET masked == IF r.mask # {} THEN BitAnd(raw, Get(r.mask)) ELSE raw
    IN  IF r.shift # {}
        THEN BitAnd(masked \div (2 ^ Get(r.shift)), (2 ^ nb) - 1)
        ELSE masked

\* the post actions with the invalidating value applied whatever the flags
PostActions_FlagIgnored(r, v) ==
    LET scaled == IF r.scale # {} /\ Get(r.scale).n # 0
                  THEN RatDiv(RatInt(v), Get(r.scale)) ELSE RatInt(v)
        biased == IF r.bias # {} /\ Get(r.bias).n # 0
                  THEN RatAdd(scaled, Get(r.bias)) ELSE scaled
        xlated == IF r.xlate # "" THEN Xlate(r.xlate, biased) ELSE biased
    IN  IF r.inval # {} /\ xlated = Get(r.inval) THEN NoneVal ELSE NumVal(xlated)

\* "Post actions": scale, bias, xlate, then the invalidating value
PostActions(r, v) ==
    LET scaled == IF r.scale # {} /\ Get(r.scale).n # 0
                  THEN RatDiv(RatInt(v), Get(r.scale)) ELSE RatInt(v)
        biased == IF r.bias # {} /\ Get(r.bias).n # 0
                  THEN RatAdd(scaled, Get(r.bias)) ELSE scaled
        xlated == IF r.xlate # "" THEN Xlate(r.xlate, biased) ELSE biased
    IN  IF "REG_FLAG_INVALID" \in r.flags /\ r.inval # {} /\ xlated = Get(r.inval)
        THEN NoneVal
        ELSE NumVal(xlated)

\* the data length in bits: reg['bits'], else the width of the type, else none
RegBits(r) == IF r.bits # {} THEN r.bits ELSE TypeBits(r.type)

\* IntSize that forgets the shift
IntSize_NoShift(r, nb) == (nb + 7) \div 8

\* size = (bits + (shift if shift is not None else 0) + 7) >> 3
IntSize(r, nb) == (nb + (IF r.shift # {} THEN Get(r.shift) ELSE 0) + 7) \div 8

load_int(r, md) ==
    IF RegBits(r) = {} THEN NoneVal
    ELSE
        LET nb == Get(RegBits(r))
            size == IntSize(r, nb)
        IN  IF size > Len(md) - r.offset THEN NoneVal
            ELSE PostActions(r, MaskShift(r,
                     FromBytes(Slice(md, r.offset, size),
                               "REG_FLAG_BIG_ENDIAN" \in r.flags,
                               r.type \in SIGNED_TYPES),
                     nb))

----------------------------------------------------------------------------
(* BleDevice.load_str                                                      *)

IsCont(x) == x >= 128 /\ x <= 191

\* the length of the UTF-8 sequence a lead byte opens, 0 for no lead byte
Utf8Width(b1) ==
    CASE b1 < 128 -> 1
      [] b1 >= 194 /\ b1 <= 223 -> 2
      [] b1 >= 224 /\ b1 <= 239 -> 3
      [] b1 >= 240 /\ b1 <= 244 -> 4
      [] OTHER -> 0

\* the second byte of a sequence excludes overlong forms, surrogates and
\* code points above U+10FFFF
Utf8Second(b1, b2) ==
    /\ b1 = 224 => b2 >= 160
    /\ b1 = 237 => b2 <= 159
    /\ b1 = 240 => b2 >= 144
    /\ b1 = 244 => b2 <= 143

Utf8CodePoint(b, n) ==
    CASE n = 1 -> b[1]
      [] n = 2 -> (b[1] - 192) * 64 + (b[2] - 128)
      [] n = 3 -> (b[1] - 224) * 4096 + (b[2] - 128) * 64 + (b[3] - 128)
      [] OTHER -> (b[1] - 240) * 262144 + (b[2] - 128) * 4096
                  + (b[3] - 128) * 64 + (b[4] - 128)

\* bytes.decode(encoding='utf-8'): the code points, or ok = FALSE where
\* Python raises UnicodeDecodeError
RECURSIVE Utf8Decode(_)
Utf8Decode(b) ==
    IF Len(b) = 0 THEN [ok |-> TRUE, cps |-> <<>>]
    ELSE
        LET n == Utf8Width(b[1])
            bad == [ok |-> FALSE, cps |-> <<>>]
        IN  IF n = 0 \/ Len(b) < n THEN bad
            ELSE IF \E i \in 2..n : ~IsCont(b[i]) THEN bad
            ELSE IF n > 1 /\ ~Utf8Second(b[1], b[2]) THEN bad
            ELSE
                LET rest == Utf8Decode(SubSeq(b, n + 1, Len(b)))
                IN  IF rest.ok
                    THEN [ok |-> TRUE, cps |-> <<Utf8CodePoint(b, n)>> \o rest.cps]
                    ELSE bad

\* size = (reg['bits'] + 7) >> 3
StrSize(r) == (Get(r.bits) + 7) \div 8

load_str(r, md) ==
    IF StrSize(r) > Len(md) - r.offset THEN NoneVal
    ELSE
        LET dec == Utf8Decode(Slice(md, r.offset, StrSize(r)))
        IN  IF dec.ok THEN StrVal(dec.cps) ELSE Raised("UnicodeDecodeError")

----------------------------------------------------------------------------
(* The field decoder applied to one register and one payload               *)

\* byte values of the payloads: ASCII, a continuation byte, a two-byte lead
\* and 0xFF
Bytes == {1, 2, 128, 195, 255}

Payloads == UNION {[1..n -> Bytes] : n \in 0..MaxLen}

NoFlags == {}
BE == {"REG_FLAG_BIG_ENDIAN"}
INV == {"REG_FLAG_INVALID"}

\* registers that differ in layout: type, offset, width, shift, mask, order
LayoutRegs ==
    {Reg("Field", t, o, b, m, sh, {}, {}, f, "", {}, {}) :
        t \in {"Byte", "Int16", "UInt16"}, o \in 0..MaxOffset, b \in {{}, {4}},
        m \in {{}, {15}}, sh \in {{}, {3}}, f \in {NoFlags, BE}}

\* registers that differ in post actions
PostRegs ==
    {Reg("Field", t, 0, {}, m, sh, sc, bi, f, x, iv, {}) :
        t \in {"Byte", "Int16"}, m \in {{}, {15}}, sh \in {{}, {3}},
        sc \in {{}, {RatInt(0)}, {RatInt(2)}}, bi \in {{}, {RatInt(3)}},
        f \in {NoFlags, INV}, x \in {"", "_byteToSignedInt"},
        iv \in {{RatInt(255)}, {RatInt(-1)}}}

\* the types whose width does not fit the payloads, and Double
WideRegs ==
    {Reg("Field", t, 1, b, {}, {}, {}, {}, NoFlags, "", {}, {}) :
        t \in {"Boolean", "Int32", "UInt32", "Int64", "UInt64", "Double"},
        b \in {{}, {8}}}

StrRegs ==
    {Reg("Field", "String", o, {b}, {}, sh, {}, {}, NoFlags, "", {}, {}) :
        o \in 0..MaxOffset, b \in {8, 16, 24}, sh \in {{}, {8}}}

DecodeRegs == LayoutRegs \cup PostRegs \cup WideRegs \cup StrRegs

\* the advertising devices
Macs == {"aa"}

\* the record of a callback that has done nothing
NoCallback ==
    [mac |-> "", ids |-> <<>>, constructed |-> FALSE, init |-> "none", raised |-> "",
     cycles |-> <<>>]

\* DbusBleSensors.__init__: no MAC is known, none is ignored
ScanIdle ==
    /\ known_mac = <<>>
    /\ ignored_mac = <<>>
    /\ cb = NoCallback
    /\ failed = {}
    /\ inits = [m \in Macs |-> 0]

\* the device decoder at rest
DevIdle ==
    /\ cls = "none"
    /\ info = <<>>
    /\ payload = <<>>
    /\ res = [raised |-> "", values |-> <<>>]
    /\ dop = "idle"

DecodeInit ==
    /\ reg \in DecodeRegs
    /\ data \in Payloads
    /\ out = NoneVal
    /\ op = "init"
    /\ DevIdle
    /\ ScanIdle

\* _parse_manufacturer_data hands every register but a String to load_int
LoadInt ==
    /\ op = "init"
    /\ reg.type # "String"
    /\ out' = load_int(reg, data)
    /\ op' = "load_int"
    /\ UNCHANGED <<reg, data>>
    /\ UNCHANGED devVars
    /\ UNCHANGED scanVars

\* and a String register to load_str
LoadStr ==
    /\ op = "init"
    /\ reg.type = "String"
    /\ out' = load_str(reg, data)
    /\ op' = "load_str"
    /\ UNCHANGED <<reg, data>>
    /\ UNCHANGED devVars
    /\ UNCHANGED scanVars

DecodeNext == LoadInt \/ LoadStr

SpecDecode == DecodeInit /\ [][DecodeNext]_vars

----------------------------------------------------------------------------
(* Claims on the field decoder                                             *)

\* ceil(x / 8)
CeilBytes(x) == (x \div 8) + (IF x % 8 = 0 THEN 0 ELSE 1)

ShiftOr0(r) == IF r.shift # {} THEN Get(r.shift) ELSE 0

\* offset + ceil((bits_or_type_default + (shift or 0)) / 8)
SpanEnd(r) == r.offset + CeilBytes(Get(RegBits(r)) + ShiftOr0(r))

\* the raw integer of a register whose span lies inside the payload
RawInt(r, md) ==
    FromBytes(SubSeq(md, r.offset + 1, SpanEnd(r)),
              "REG_FLAG_BIG_ENDIAN" \in r.flags, r.type \in SIGNED_TYPES)

\* the transformation of the raw integer v in the order the specification fixes
OrderedDecode(r, v) ==
    LET a == IF r.mask # {} THEN BitAnd(v, Get(r.mask)) ELSE v
        b == IF r.shift # {}
             THEN (a \div (2 ^ Get(r.shift))) % (2 ^ Get(RegBits(r))) ELSE a
        c == IF r.scale # {} /\ Get(r.scale) # RatInt(0)
             THEN RatDiv(RatInt(b), Get(r.scale)) ELSE RatInt(b)
        d == IF r.bias # {} THEN RatAdd(c, Get(r.bias)) ELSE c
        e == IF r.xlate # "" THEN Xlate(r.xlate, d) ELSE d
    IN  IF "REG_FLAG_INVALID" \in r.flags /\ r.inval # {} /\ e = Get(r.inval)
        THEN NoneVal ELSE NumVal(e)

OnlyScaleBias(r) ==
    /\ r.mask = {} /\ r.shift = {} /\ r.xlate = ""
    /\ "REG_FLAG_INVALID" \notin r.flags
    /\ r.scale # {} /\ Get(r.scale) # RatInt(0) /\ r.bias # {}

\* C1: for every register whose width resolves and every payload that holds
\* its span, load_int returns the raw integer after mask, then shift and
\* trim, then division by scale, then bias, then xlate, then the check of the
\* invalidating value; with only scale s and bias b the result is v/s + b.
C1_DecodeOrder ==
    (op = "load_int" /\ RegBits(reg) # {} /\ Len(data) >= SpanEnd(reg)) =>
        /\ out = OrderedDecode(reg, RawInt(reg, data))
        /\ OnlyScaleBias(reg) =>
               out = NumVal(RatAdd(RatDiv(RatInt(RawInt(reg, data)), Get(reg.scale)),
                                   Get(reg.bias)))

\* a decode in which every step applies and the order of mask and shift
\* shows in the result
C1_Witness ==
    /\ op = "load_int"
    /\ reg.mask # {} /\ reg.shift # {} /\ reg.scale = {RatInt(2)} /\ reg.bias # {}
    /\ reg.xlate # "" /\ "REG_FLAG_INVALID" \in reg.flags
    /\ out.k = "num" /\ out.d = 2
    /\ MaskShift(reg, RawInt(reg, data), 8) # MaskShift_ShiftFirst(reg, RawInt(reg, data), 8)

\* C9 as stated: load_int and load_str return None whenever the payload is
\* shorter than offset + ceil((bits_or_type_default + (shift or 0)) / 8).
C9_TruncatedAbsent_AsStated ==
    (op \in {"load_int", "load_str"} /\ RegBits(reg) # {} /\ Len(data) < SpanEnd(reg)) =>
        out = NoneVal

\* C9, amended: load_int returns None (and does not raise) whenever the
\* payload is shorter than offset + ceil((bits_or_type_default + (shift or
\* 0)) / 8); load_str returns None (and does not raise) whenever the payload
\* is shorter than offset + ceil(bits / 8): load_str does not read shift.
C9_TruncatedAbsent ==
    /\ (op = "load_int" /\ RegBits(reg) # {} /\ Len(data) < SpanEnd(reg)) =>
           out = NoneVal
    /\ (op = "load_str" /\ Len(data) < reg.offset + CeilBytes(Get(reg.bits))) =>
           out = NoneVal

\* a payload that holds the bits of the register but not its shifted span
C9_Witness ==
    /\ op = "load_int"
    /\ reg.shift # {}
    /\ Len(data) >= reg.offset + CeilBytes(Get(RegBits(reg)))
    /\ Len(data) < SpanEnd(reg)
    /\ out = NoneVal

----------------------------------------------------------------------------
(* Roles                                                                   *)

\* the role class this repository ships: BleRoleTank
TankRole == "tank"

\* the role classes the device classes name and the specification lists
OtherRoles == {"temperature", "battery", "digitalinput", "movement"}

\* BleRole._ROLE_INSTANCE after load_instances
ROLE_INSTANCE == {TankRole} \cup OtherRoles

\* the None a roles list may hold
NoRole == "None"

Range(q) == {q[i] : i \in 1..Len(q)}

----------------------------------------------------------------------------
(* BleDeviceTeltonika._compute_regs                                        *)

FlagReg(sh) == Reg("Flag", "Boolean", 1, {1}, {}, {sh}, {}, {}, NoFlags, "", {}, {})

\* Python's truth value of a decoded value
Truthy(v) ==
    CASE v.k = "num" -> v.n # 0
      [] v.k = "bool" -> v.n # 0
      [] v.k = "str" -> Len(v.s) > 0
      [] OTHER -> FALSE

\* Flag that reads bit 0 whatever the section
Flag_Bit0(m, sh) == Truthy(load_int(FlagReg(0), m))

Flag(m, sh) == Truthy(load_int(FlagReg(sh), m))

When(c, q) == IF c THEN q ELSE <<>>

TelHeader ==
    << Reg("Version", "Byte", 0, {}, {}, {}, {}, {}, NoFlags, "", {}, {<<NoRole>>}),
       Reg("EyeFlags", "Byte", 1, {}, {}, {}, {}, {}, NoFlags, "", {}, {<<NoRole>>}),
       Reg("LowBattery", "Boolean", 1, {1}, {}, {6}, {}, {}, NoFlags, "", {}, {}) >>

InputStateReg ==
    Reg("InputState", "Boolean", 1, {1}, {}, {3}, {}, {}, NoFlags, "", {},
        {<<"digitalinput">>})

TemperatureReg(o) ==
    Reg("Temperature", "Int16", o, {}, {}, {}, {RatInt(100)}, {}, BE, "", {},
        {<<"temperature">>})

HumidityReg(o) ==
    Reg("Humidity", "Byte", o, {}, {}, {}, {}, {}, BE, "", {}, {<<"temperature">>})

MovementStateReg(o) ==
    Reg("MovementState", "Boolean", o, {1}, {}, {7}, {}, {}, NoFlags, "", {},
        {<<"movement">>})

MovementCountReg(o) ==
    Reg("MovementCount", "UInt16", o, {}, {32767}, {}, {}, {}, BE, "", {},
        {<<"movement">>})

PitchReg(o) ==
    Reg("Pitch", "Byte", o, {}, {}, {}, {}, {}, NoFlags, "_byteToSignedInt", {},
        {<<"movement">>})

\* 'offset': 8
RollReg ==
    Reg("Roll", "Int16", 8, {}, {}, {}, {}, {}, BE, "", {}, {<<"movement">>})

BatteryVoltageReg(o) ==
    Reg("BatteryVoltage", "Byte", o, {}, {}, {}, {Rat(1, 10)}, {RatInt(2000)},
        NoFlags, "", {}, {})

\* the register table, and the roles in the order they are appended (before
\* list(set(...)) removes the duplicates)
compute_regs(m) ==
    LET flag_mag == Flag(m, 2)
        flag_temp == Flag(m, 0)
        flag_humid == Flag(m, 1)
        flag_mov == Flag(m, 4)
        flag_angle == Flag(m, 5)
        flag_bat == Flag(m, 7)
        o_temp == 2
        o_humid == IF flag_temp THEN o_temp + 2 ELSE o_temp
        o_mov == IF flag_humid THEN o_humid + 1 ELSE o_humid
        o_angle == IF flag_mov THEN o_mov + 2 ELSE o_mov
        o_bat == IF flag_angle THEN o_angle + 1 + 2 ELSE o_angle
    IN  [regs |-> TelHeader
                  \o When(flag_mag, <<InputStateReg>>)
                  \o When(flag_temp, <<TemperatureReg(o_temp)>>)
                  \o When(flag_humid, <<HumidityReg(o_humid)>>)
                  \o When(flag_mov, <<MovementStateReg(o_mov), MovementCountReg(o_mov)>>)
                  \o When(flag_angle, <<PitchReg(o_angle), RollReg>>)
                  \o When(flag_bat, <<BatteryVoltageReg(o_bat)>>),
         appended |-> When(flag_mag, <<"digitalinput">>)
                      \o When(flag_temp, <<"temperature">>)
                      \o When(flag_humid, <<"temperature">>)
                      \o When(flag_mov, <<"movement">>)
                      \o When(flag_angle, <<"movement">>)]

\* the alarms configure declares
TelAlarms == <<Alarm("/Alarms/LowBattery", "_get_low_battery_state")>>

\* list(set(roles)): the distinct roles in an order the hash seed decides
Orderings(S) ==
    {q \in [1..Cardinality(S) -> S] : \A i, j \in 1..Cardinality(S) : q[i] = q[j] => i = j}

----------------------------------------------------------------------------
(* BleDevice._check_configuration                                          *)

\* self.info: kind has the keys the dictionary holds, each with the kind of
\* its value ("None", "int", "str", "list", "dict"); roles, regs, settings and
\* alarms are the lists themselves (empty when the value is not a list)
Info(kind, roles, regs, settings, alarms) ==
    [kind |-> kind, roles |-> roles, regs |-> regs, settings |-> settings,
     alarms |-> alarms]

\* the keys the first loop reads, in its order
MandatoryKeys ==
    <<"manufacturer_id", "product_id", "product_name", "DeviceName", "dev_prefix",
      "roles", "regs", "settings", "alarms">>

\* a configuration with every key set to a value of the expected kind
GoodKind ==
    [manufacturer_id |-> "int", product_id |-> "int", product_name |-> "str",
     DeviceName |-> "str", dev_prefix |-> "str", roles |-> "list", regs |-> "list",
     settings |-> "list", alarms |-> "list"]

\* the outcome of a validation: the ValueError message and what it names
Fail(err, key) == [err |-> err, key |-> key]
Passes == Fail("", "")

\* the check b runs only when the check a has passed
Then(a, b) == IF a # Passes THEN a ELSE b

\* "configuration key is missing" / "can not be None", for the keys from k on
RECURSIVE check_keys(_, _, _)
check_keys(i, q, k) ==
    IF k > Len(q) THEN Passes
    ELSE IF q[k] \notin DOMAIN i.kind THEN Fail("is missing", q[k])
    ELSE IF i.kind[q[k]] = "None" THEN Fail("can not be None", q[k])
    ELSE check_keys(i, q, k + 1)

\* isinstance(self.info[key], int / list) for the keys of q from k on
RECURSIVE check_kinds(_, _, _, _, _)
check_kinds(i, q, k, kind, err) ==
    IF k > Len(q) THEN Passes
    ELSE IF i.kind[q[k]] # kind THEN Fail(err, q[k])
    ELSE check_kinds(i, q, k + 1, kind, err)

\* roles and regs hold at least one element
check_mandatory_lists(i) ==
    IF Len(i.roles) < 1 THEN Fail("must have at least one element", "roles")
    ELSE IF Len(i.regs) < 1 THEN Fail("must have at least one element", "regs")
    ELSE Passes

\* UnknownRole that takes every role for registered
UnknownRole_Never(q) == FALSE

\* role is not None and role not in BleRole._ROLE_INSTANCE
UnknownRole(q) == \E r \in Range(q) : r # NoRole /\ r \notin ROLE_INSTANCE

\* isinstance(reg[key], int): a register says in kind when a value is not
IsInt(r, key) ==
    ~("kind" \in DOMAIN r /\ key \in DOMAIN r.kind /\ r.kind[key] # "int")

\* the body of the loop over the registers
check_reg(r) ==
    IF "name" \notin DOMAIN r THEN Fail("Missing 'name' in reg", "name")
    ELSE IF "type" \notin DOMAIN r THEN Fail("Missing key in reg", "type")
    ELSE IF "offset" \notin DOMAIN r THEN Fail("Missing key in reg", "offset")
    ELSE IF r.type \notin ALLOWED_TYPES THEN Fail("Data type is not allowed", "type")
    ELSE IF r.type = "String" /\ r.bits = {} THEN Fail("missing 'bits'", "bits")
    ELSE IF r.type = "String" /\ ~IsInt(r, "bits") THEN Fail("must be an integer", "bits")
    ELSE IF r.type = "String" /\ Get(r.bits) % 8 # 0
        THEN Fail("must be a multiple of 8", "bits")
    ELSE IF r.roles # {} /\ UnknownRole(Get(r.roles)) THEN Fail("Unknown role in reg", "roles")
    ELSE Passes

RECURSIVE check_regs(_, _)
check_regs(regs, k) ==
    IF k > Len(regs) THEN Passes
    ELSE Then(check_reg(regs[k]), check_regs(regs, k + 1))

\* the body of the loop over the settings (also BleRole.check_configuration)
check_setting(st) ==
    IF "name" \notin DOMAIN st THEN Fail("Missing 'name' in setting", "name")
    ELSE IF "props" \notin DOMAIN st THEN Fail("Missing 'props' definition in setting", "props")
    ELSE IF "def" \notin DOMAIN st.props THEN Fail("Missing key in setting", "def")
    ELSE IF "min" \notin DOMAIN st.props THEN Fail("Missing key in setting", "min")
    ELSE IF "max" \notin DOMAIN st.props THEN Fail("Missing key in setting", "max")
    ELSE Passes

RECURSIVE check_settings(_, _)
check_settings(settings, k) ==
    IF k > Len(settings) THEN Passes
    ELSE Then(check_setting(settings[k]), check_settings(settings, k + 1))

\* check_alarm that asks for the name only
check_alarm_NameOnly(al) ==
    IF "name" \notin DOMAIN al THEN Fail("Missing 'name' in alarm", "name") ELSE Passes

\* the body of the loop over the alarms (also BleRole.check_configuration)
check_alarm(al) ==
    IF "name" \notin DOMAIN al THEN Fail("Missing 'name' in alarm", "name")
    ELSE IF "update" \notin DOMAIN al THEN Fail("Missing key in alarm", "update")
    ELSE Passes

RECURSIVE check_alarms(_, _)
check_alarms(alarms, k) ==
    IF k > Len(alarms) THEN Passes
    ELSE Then(check_alarm(alarms[k]), check_alarms(alarms, k + 1))

\* the first violated rule, Passes when the configuration is accepted
check_configuration(i) ==
    Then(check_keys(i, MandatoryKeys, 1),
    Then(check_kinds(i, <<"manufacturer_id", "product_id">>, 1, "int", "must be an integer"),
    Then(check_kinds(i, <<"roles", "regs", "settings", "alarms">>, 1, "list", "must be a list"),
    Then(check_mandatory_lists(i),
    Then(IF UnknownRole(i.roles) THEN Fail("Unknown role", "roles") ELSE Passes,
    Then(check_regs(i.regs, 1),
    Then(check_settings(i.settings, 1),
         check_alarms(i.alarms, 1))))))))

\* the keys BleRole.check_configuration reads
RoleKeys == <<"name", "dev_instance", "settings", "alarms">>

\* BleRole.check_configuration on a role's info: the log prefix reads
\* self.info['name'] (KeyError when the key is missing) before any check
role_check_configuration(ri) ==
    IF "name" \notin DOMAIN ri.kind THEN [raised |-> "KeyError", report |-> Fail("", "name")]
    ELSE [raised |-> "ValueError",
          report |->
              Then(check_keys(ri, RoleKeys, 1),
              Then(check_kinds(ri, <<"dev_instance">>, 1, "int", "must be an integer"),
              Then(check_kinds(ri, <<"settings", "alarms">>, 1, "list", "must be a list"),
              Then(check_settings(ri.settings, 1),
                   check_alarms(ri.alarms, 1)))))]

\* the exception check_configuration leaves with, "" when it returns
RoleRaised(checked) == IF checked.report = Passes THEN "" ELSE checked.raised

\* BleDevice._load_configuration: manufacturer_id is set from the class, then
\* dev_prefix and DeviceName are concatenated with strings (KeyError on a
\* missing key, TypeError on a value that is not a string)
load_configuration(i) ==
    IF "dev_prefix" \notin DOMAIN i.kind
    THEN [info |-> i, raised |-> "KeyError", key |-> "dev_prefix"]
    ELSE IF i.kind["dev_prefix"] # "str"
        THEN [info |-> i, raised |-> "TypeError", key |-> "dev_prefix"]
    ELSE IF "DeviceName" \notin DOMAIN i.kind
        THEN [info |-> i, raised |-> "KeyError", key |-> "DeviceName"]
    ELSE IF i.kind["DeviceName"] # "str"
        THEN [info |-> i, raised |-> "TypeError", key |-> "DeviceName"]
    ELSE [info |-> [i EXCEPT !.kind = [k \in DOMAIN i.kind \cup {"manufacturer_id"} |->
                                          IF k = "manufacturer_id" THEN "int"
                                          ELSE i.kind[k]]],
          raised |-> "", key |-> ""]

\* BleDevice.__init__: the keys and values self.info starts with, DeviceName
\* being the dev_name handed to the constructor
NewInfo(name_kind) ==
    Info([product_id |-> "int", product_name |-> "None", DeviceName |-> name_kind,
          dev_prefix |-> "None", roles |-> "list", regs |-> "list", settings |-> "list",
          alarms |-> "list"],
         <<>>, <<>>, <<>>, <<>>)

\* BleDeviceTeltonika.configure: self.info.update(...) and the table and the
\* roles of _compute_regs
TelInfo(i, roles, regs) ==
    Info([k \in DOMAIN i.kind \cup {"manufacturer_id"} |->
             IF k \in {"manufacturer_id", "product_id"} THEN "int"
             ELSE IF k \in {"product_name", "dev_prefix"} THEN "str"
             ELSE i.kind[k]],
         roles, regs, i.settings, TelAlarms)

----------------------------------------------------------------------------
(* BleDevice._parse_manufacturer_data                                      *)

EmptyMap == <<>>

\* d[k] = v on a dictionary
Put(m, k, v) == [x \in (DOMAIN m) \cup {k} |-> IF x = k THEN v ELSE m[x]]

\* bool(x)
PyBool(v) == BoolVal(Truthy(v))

\* the match on reg['type']
DecodeReg(r, m) ==
    CASE r.type = "Boolean" -> PyBool(load_int(r, m))
      [] r.type = "String" -> load_str(r, m)
      [] r.type \in ALLOWED_TYPES -> load_int(r, m)
      [] OTHER -> NoneVal

RECURSIVE ParseFrom(_, _, _, _)

\* the body of the loop for register r once its value is decoded: None and
\* ignored registers are skipped, values[role][reg['name']] = value otherwise
StoreValue(i, m, k, values, r, value) ==
    IF IsRaise(value) THEN [raised |-> value.k, values |-> <<>>]
    ELSE IF value = NoneVal THEN ParseFrom(i, m, k + 1, values)
    ELSE IF r.roles # {} /\ NoRole \in Range(Get(r.roles))
        THEN ParseFrom(i, m, k + 1, values)
    ELSE IF \E role \in Range(IF r.roles = {} THEN i.roles ELSE Get(r.roles)) :
               role \notin DOMAIN values
        THEN [raised |-> "KeyError", values |-> <<>>]
    ELSE ParseFrom(i, m, k + 1,
             [role \in DOMAIN values |->
                 IF role \in Range(IF r.roles = {} THEN i.roles ELSE Get(r.roles))
                 THEN Put(values[role], r.name, value)
                 ELSE values[role]])

\* the loop over the registers from index k on, values being the maps so far
ParseFrom(i, m, k, values) ==
    IF k > Len(i.regs) THEN [raised |-> "", values |-> values]
    ELSE StoreValue(i, m, k, values, i.regs[k], DecodeReg(i.regs[k], m))

parse_manufacturer_data(i, m) ==
    ParseFrom(i, m, 1, [role \in Range(i.roles) |-> EmptyMap])

----------------------------------------------------------------------------
(* The device decoder applied to one device instance                       *)

TableBytes == {0, 65, 255}

TablePayloads == UNION {[1..n -> TableBytes] : n \in 0..MaxTableLen}

RoleChoices ==
    {{}, {<<"tank">>}, {<<"temperature">>}, {<<NoRole>>}, {<<"temperature", NoRole>>}}

\* the registers of the static tables, by name
TableRegs(name) ==
    {Reg(name, "Byte", 0, {}, {}, {}, {}, {}, NoFlags, "", {}, ro) : ro \in RoleChoices}
    \cup {Reg(name, "Byte", 0, {}, {}, {}, {}, {}, INV, "", {RatInt(255)}, ro) :
             ro \in RoleChoices}
    \cup {Reg(name, "Boolean", 1, {}, {}, {}, {}, {}, NoFlags, "", {}, ro) :
             ro \in RoleChoices}
    \cup {Reg(name, "String", 0, {8}, {}, {}, {}, {}, NoFlags, "", {}, ro) :
             ro \in RoleChoices}
    \cup {Reg(name, "Int16", 0, {}, {}, {}, {}, {}, NoFlags, "", {}, ro) :
             ro \in RoleChoices}

\* configurations a device class with a static table may declare
StaticInfos ==
    {Info(GoodKind, ro, <<a, b>>, <<>>, <<>>) :
        ro \in {<<"tank">>, <<"temperature">>, <<"tank", "temperature">>},
        a \in TableRegs("A"), b \in TableRegs("B")}

\* the payload <<version, flags>> followed by n body bytes
TelPayload(f, n) == <<1, f>> \o [i \in 1..n |-> (73 * i + 9) % 256]

TelPayloads ==
    {<<>>, <<1>>} \cup {TelPayload(f, n) : f \in 0..255, n \in {0, MaxBody}}

\* the payloads a configured Teltonika device decodes
TelDecoded ==
    {<<1>>} \cup {TelPayload(f, n) : f \in {0, 1, 63, 255}, n \in {0, MaxBody}}

\* the field decoder at rest
DecIdle ==
    /\ reg = <<>>
    /\ data = <<>>
    /\ out = <<>>
    /\ op = "idle"

DevInit ==
    /\ DecIdle
    /\ ScanIdle
    /\ payload = <<>>
    /\ res = [raised |-> "", values |-> <<>>]
    /\ \/ /\ cls = "static"
          /\ info \in StaticInfos
          /\ dop = "configured"
       \/ /\ cls = "teltonika"
          /\ info = NewInfo("str")
          /\ dop = "new"

\* BleDeviceTeltonika.configure(manufacturer_data)
TelConfigure ==
    /\ cls = "teltonika"
    /\ dop = "new"
    /\ \E m \in TelPayloads :
          \E roles \in Orderings(Range(compute_regs(m).appended)) :
             /\ info' = TelInfo(info, roles, compute_regs(m).regs)
             /\ payload' = m
    /\ dop' = "configured"
    /\ UNCHANGED <<cls, res>>
    /\ UNCHANGED decVars
    /\ UNCHANGED scanVars

\* _parse_manufacturer_data(manufacturer_data) on a validated configuration
Parse ==
    /\ dop = "configured"
    /\ check_configuration(info) = Passes
    /\ \E m \in (IF cls = "static" THEN TablePayloads ELSE TelDecoded) :
          /\ payload' = m
          /\ res' = parse_manufacturer_data(info, m)
    /\ dop' = "parsed"
    /\ UNCHANGED <<cls, info>>
    /\ UNCHANGED decVars
    /\ UNCHANGED scanVars

\* a decode that drops the first register of the table it has used
Reparse_Consuming ==
    /\ dop = "parsed"
    /\ res.raised = ""
    /\ res' = parse_manufacturer_data(info, payload)
    /\ info' = [info EXCEPT !.regs = Tail(@)]
    /\ dop' = "reparsed"
    /\ UNCHANGED <<cls, payload>>
    /\ UNCHANGED decVars
    /\ UNCHANGED scanVars

\* _parse_manufacturer_data called again with the payload of the last call
Reparse ==
    /\ dop = "parsed"
    /\ res.raised = ""
    /\ res' = parse_manufacturer_data(info, payload)
    /\ dop' = "reparsed"
    /\ UNCHANGED <<cls, info, payload>>
    /\ UNCHANGED decVars
    /\ UNCHANGED scanVars

DevNext == TelConfigure \/ Parse \/ Reparse

SpecDevice == DevInit /\ [][DevNext]_vars

----------------------------------------------------------------------------
(* Claims on the device decoder                                            *)

\* the decode of register r is absent: the payload is too short for its
\* span, or the invalidating value matched
Absent(r, m) ==
    IF r.type = "String" THEN Len(m) < r.offset + CeilBytes(Get(r.bits))
    ELSE load_int(r, m) = NoneVal

\* the role maps of the result that hold the name
MapsWith(values, name) == {role \in DOMAIN values : name \in DOMAIN values[role]}

\* the roles a present register is reported to
Targets(i, r) ==
    IF r.roles = {} THEN Range(i.roles)
    ELSE IF NoRole \in Range(Get(r.roles)) THEN {}
    ELSE Range(Get(r.roles))

\* C2: a register of any type whose decode is absent is in no role map of
\* the result of _parse_manufacturer_data, and every other register of the
\* table is still reported (stated for the calls that return).
C2_AbsentOmitted ==
    (dop = "parsed" /\ res.raised = "") =>
        \A k \in 1..Len(info.regs) :
            IF Absent(info.regs[k], payload)
            THEN MapsWith(res.values, info.regs[k].name) = {}
            ELSE MapsWith(res.values, info.regs[k].name) = Targets(info, info.regs[k])

\* the bytes of the span of a String register that lies inside the payload
StrSpan(r, m) == SubSeq(m, r.offset + 1, r.offset + CeilBytes(Get(r.bits)))

InvalidUtf8(r, m) ==
    /\ r.type = "String"
    /\ Len(m) >= r.offset + CeilBytes(Get(r.bits))
    /\ ~Utf8Decode(StrSpan(r, m)).ok

\* C5: when the span of a String register holds bytes that are not valid
\* UTF-8, _parse_manufacturer_data returns, omits that field and reports the
\* other registers of the payload.
C5_InvalidUtf8Absent ==
    (dop = "parsed" /\ \E k \in 1..Len(info.regs) : InvalidUtf8(info.regs[k], payload)) =>
        /\ res.raised = ""
        /\ \A k \in 1..Len(info.regs) :
               InvalidUtf8(info.regs[k], payload) =>
                   MapsWith(res.values, info.regs[k].name) = {}

\* C8: on a validated configuration _parse_manufacturer_data returns, without
\* raising, one map per declared role; a present field is in the maps of all
\* declared roles when it has no roles key, in exactly the maps of its roles
\* when it has one, and in no map when the list holds None (stated for the
\* tables without String registers).
C8_RoleMaps ==
    (dop = "parsed" /\ \A k \in 1..Len(info.regs) : info.regs[k].type # "String") =>
        /\ res.raised = ""
        /\ DOMAIN res.values = Range(info.roles)
        /\ \A k \in 1..Len(info.regs) :
               ~Absent(info.regs[k], payload) =>
                   MapsWith(res.values, info.regs[k].name) = Targets(info, info.regs[k])

\* bit b of the flag byte of the payload the table was computed from
FlagBit(m, b) == IF Len(m) >= 2 THEN (m[2] \div (2 ^ b)) % 2 ELSE 0

\* the running cursor at each section: 2 plus the widths of the sections
\* included before it
CursorAt(m, name) ==
    LET temp == 2
        humid == temp + 2 * FlagBit(m, 0)
        mov == humid + FlagBit(m, 1)
        angle == mov + 2 * FlagBit(m, 4)
        bat == angle + 3 * FlagBit(m, 5)
    IN  CASE name = "Temperature" -> temp
          [] name = "Humidity" -> humid
          [] name \in {"MovementState", "MovementCount"} -> mov
          [] name = "Pitch" -> angle
          [] name = "Roll" -> angle + 1
          [] OTHER -> bat

Optional == {"Temperature", "Humidity", "MovementState", "MovementCount", "Pitch",
             "Roll", "BatteryVoltage"}

\* C4: every conditionally included register of _compute_regs sits at the
\* running cursor of its section (Roll one byte after Pitch, BatteryVoltage
\* at the final cursor).
C4_CursorOffsets ==
    (cls = "teltonika" /\ dop = "configured") =>
        \A k \in 1..Len(info.regs) :
            info.regs[k].name \in Optional =>
                info.regs[k].offset = CursorAt(payload, info.regs[k].name)

----------------------------------------------------------------------------
(* DbusRoleService: the published paths, the bus name and its timers       *)

\* DbusRoleService._clear_path on the names of this model
ClearPath(name) ==
    CASE name = "LowBattery" -> "/LowBattery"
      [] name = "InputState" -> "/InputState"
      [] name = "Temperature" -> "/Temperature"
      [] name = "Humidity" -> "/Humidity"
      [] name = "MovementState" -> "/MovementState"
      [] name = "MovementCount" -> "/MovementCount"
      [] name = "Pitch" -> "/Pitch"
      [] name = "Roll" -> "/Roll"
      [] name = "BatteryVoltage" -> "/BatteryVoltage"
      [] name = "Level" -> "/Level"
      [] OTHER -> name

\* DbusRoleService._get_value: None for a path that does not exist
GetValue(pub, path) ==
    IF ClearPath(path) \in DOMAIN pub THEN pub[ClearPath(path)] ELSE NoneVal

\* DbusRoleService._set_value: the path is added or updated
SetValue(pub, path, v) == Put(pub, ClearPath(path), v)

IntVal(i) == NumVal(RatInt(i))

\* BleRoleTank.info['settings']
TankSettings ==
    << Setting("/Alarms/High/Enable", 0, 0, 1), Setting("/Alarms/High/Active", 90, 0, 100),
       Setting("/Alarms/High/Restore", 80, 0, 100), Setting("/Alarms/Low/Enable", 0, 0, 1),
       Setting("/Alarms/Low/Active", 10, 0, 100), Setting("/Alarms/Low/Restore", 15, 0, 100) >>

\* BleRoleTank.info['alarms']; the other roles keep BleRole's empty lists
TankAlarms ==
    << Alarm("/Alarms/High/State", "get_alarm_high_state"),
       Alarm("/Alarms/Low/State", "get_alarm_low_state") >>

RoleSettings(role) == IF role = TankRole THEN TankSettings ELSE <<>>
RoleAlarms(role) == IF role = TankRole THEN TankAlarms ELSE <<>>

\* the tank alarm compared with the Active threshold whatever its state
TankAlarmState_NoHysteresis(pub, dir) ==
    LET enable == GetValue(pub, IF dir = "High" THEN "/Alarms/High/Enable"
                                ELSE "/Alarms/Low/Enable")
        active == GetValue(pub, IF dir = "High" THEN "/Alarms/High/Active"
                                ELSE "/Alarms/Low/Active")
        level == GetValue(pub, "Level")
    IN  IF ~Truthy(enable) THEN IntVal(0)
        ELSE IF level = NoneVal THEN Raised("TypeError")
        ELSE IF dir = "High"
            THEN IntVal(IF RatLess(ValRat(active), ValRat(level)) THEN 1 ELSE 0)
            ELSE IntVal(IF RatLess(ValRat(level), ValRat(active)) THEN 1 ELSE 0)

\* BleRoleTank.get_alarm_high_state / get_alarm_low_state: float(None) raises
TankAlarmState(pub, dir) ==
    LET enable == GetValue(pub, IF dir = "High" THEN "/Alarms/High/Enable"
                                ELSE "/Alarms/Low/Enable")
        state == GetValue(pub, IF dir = "High" THEN "/Alarms/High/State"
                               ELSE "/Alarms/Low/State")
        active == GetValue(pub, IF dir = "High" THEN "/Alarms/High/Active"
                                ELSE "/Alarms/Low/Active")
        restore == GetValue(pub, IF dir = "High" THEN "/Alarms/High/Restore"
                                 ELSE "/Alarms/Low/Restore")
        threshold == IF Truthy(state) THEN restore ELSE active
        level == GetValue(pub, "Level")
    IN  IF ~Truthy(enable) THEN IntVal(0)
        ELSE IF level = NoneVal THEN Raised("TypeError")
        ELSE IF dir = "High"
            THEN IntVal(IF RatLess(ValRat(threshold), ValRat(level)) THEN 1 ELSE 0)
            ELSE IntVal(IF RatLess(ValRat(level), ValRat(threshold)) THEN 1 ELSE 0)

\* BleDeviceTeltonika._get_low_battery_state
LowBatteryState(pub) ==
    LET x == GetValue(pub, "LowBattery")
        y == IF Truthy(x) THEN ValRat(x) ELSE RatInt(0)
    IN  IntVal(IF RatLess(y, RatInt(1)) THEN 0 ELSE 1)

\* alarm['update'](role_service)
AlarmState(alarm, pub) ==
    CASE alarm.update = "get_alarm_high_state" -> TankAlarmState(pub, "High")
      [] alarm.update = "get_alarm_low_state" -> TankAlarmState(pub, "Low")
      [] OTHER -> LowBatteryState(pub)

\* add_setting and add_alarm of _configure_role_service
RECURSIVE AddSettings(_, _, _)
AddSettings(pub, settings, k) ==
    IF k > Len(settings) THEN pub
    ELSE AddSettings(SetValue(pub, settings[k].name, IntVal(settings[k].props.def)), settings, k + 1)

RECURSIVE AddAlarms(_, _, _)
AddAlarms(pub, alarms, k) ==
    IF k > Len(alarms) THEN pub
    ELSE AddAlarms(SetValue(pub, alarms[k].name, IntVal(0)), alarms, k + 1)

\* DbusRoleService.__init__, _configure_role_service and register_role_service
\* (Enabled starts at its default, 0)
NewService(role, i) ==
    [published |->
        AddAlarms(AddSettings(AddAlarms(AddSettings(EmptyMap, RoleSettings(role), 1),
                                        RoleAlarms(role), 1),
                              i.settings, 1),
                  i.alarms, 1),
     enabled |-> 0, connected |-> FALSE, timer |-> FALSE, stale |-> 0]

\* DbusRoleService.connect: timer says that the task _dbus_service_timer
\* refers to is pending, stale counts the pending tasks nothing refers to
connect(svc) ==
    IF svc.connected
    THEN [svc EXCEPT !.timer = TRUE]
    ELSE [svc EXCEPT !.connected = TRUE,
                     !.stale = @ + (IF svc.timer THEN 1 ELSE 0),
                     !.timer = TRUE]

\* DbusRoleService.disconnect
disconnect(svc) == IF ~svc.connected THEN svc ELSE [svc EXCEPT !.connected = FALSE]

Step(e, role, name) == [e |-> e, role |-> role, name |-> name]

----------------------------------------------------------------------------
(* BleDevice.handle_data                                                   *)

\* BleDevice._update_dbus_data
RECURSIVE UpdateFrom(_, _, _)
UpdateFrom(pub, role_data, names) ==
    IF names = {} THEN pub
    ELSE LET n == CHOOSE x \in names : TRUE
         IN  UpdateFrom(SetValue(pub, n, role_data[n]), role_data, names \ {n})

\* _update_dbus_data that publishes the value map in place of what was there
update_dbus_data_Replace(pub, role_data) == UpdateFrom(EmptyMap, role_data, DOMAIN role_data)

update_dbus_data(pub, role_data) == UpdateFrom(pub, role_data, DOMAIN role_data)

RECURSIVE UpdateAlarms(_, _, _, _, _)

\* DbusRoleService.update_alarm once alarm['update'] has returned state
AlarmUpdated(pub, role, alarms, k, steps, state) ==
    IF IsRaise(state)
    THEN [published |-> pub, steps |-> steps, raised |-> state.k]
    ELSE UpdateAlarms(SetValue(pub, alarms[k].name, state), role, alarms, k + 1,
                      Append(steps, Step("update_alarm", role, alarms[k].name)))

\* role_service.update_alarm(alarm) for the alarms from index k on
UpdateAlarms(pub, role, alarms, k, steps) ==
    IF k > Len(alarms) THEN [published |-> pub, steps |-> steps, raised |-> ""]
    ELSE AlarmUpdated(pub, role, alarms, k, steps, AlarmState(alarms[k], pub))

\* the end of the loop body: connect() unless an alarm callback raised
Connected(svc, role, alarmed) ==
    IF alarmed.raised # ""
    THEN [svc |-> [svc EXCEPT !.published = alarmed.published],
          steps |-> alarmed.steps, raised |-> alarmed.raised]
    ELSE [svc |-> connect([svc EXCEPT !.published = alarmed.published]),
          steps |-> Append(alarmed.steps, Step("connect", role, "")),
          raised |-> ""]

\* the write of the cycle on what the alarms left, then connect()
WrittenLast(svc, role, role_data, alarmed) ==
    [svc |-> connect([svc EXCEPT !.published =
                         update_dbus_data(alarmed.published, role_data)]),
     steps |-> alarmed.steps \o << Step("_update_dbus_data", role, ""),
                                   Step("connect", role, "") >>,
     raised |-> ""]

\* the alarms of the cycle evaluated before the values of the cycle are written
service_cycle_AlarmsFirst(svc, role, role_data, i) ==
    WrittenLast(svc, role, role_data,
                UpdateAlarms(svc.published, role, RoleAlarms(role) \o i.alarms, 1,
                             << Step("role.update_data", role, ""),
                                Step("device.update_data", role, "") >>))

\* the body of the loop of handle_data for one role service: the two
\* update_data hooks (both empty), the write, the alarms, connect()
service_cycle(svc, role, role_data, i) ==
    Connected(svc, role,
              UpdateAlarms(update_dbus_data(svc.published, role_data), role,
                           RoleAlarms(role) \o i.alarms, 1,
                           << Step("role.update_data", role, ""),
                              Step("device.update_data", role, ""),
                              Step("_update_dbus_data", role, "") >>))

\* DbusBleService.is_device_enabled
is_device_enabled(inst) ==
    \E k \in 1..Len(inst.info.roles) :
        /\ inst.info.roles[k] \in DOMAIN inst.services
        /\ inst.services[inst.info.roles[k]].enabled # 0

RECURSIVE ServicesFrom(_, _, _, _)

\* the loop goes on to the next role service unless the body raised
NextService(inst, sensor_data, k, steps, role, done) ==
    IF done.raised # ""
    THEN [inst |-> [inst EXCEPT !.services[role] = done.svc],
          steps |-> steps \o done.steps, raised |-> done.raised]
    ELSE ServicesFrom([inst EXCEPT !.services[role] = done.svc], sensor_data, k + 1,
                      steps \o done.steps)

\* the loop over self._role_services.values() from index k on
ServicesFrom(inst, sensor_data, k, steps) ==
    IF k > Len(inst.info.roles) THEN [inst |-> inst, steps |-> steps, raised |-> ""]
    ELSE NextService(inst, sensor_data, k, steps, inst.info.roles[k],
                     service_cycle(inst.services[inst.info.roles[k]], inst.info.roles[k],
                                   sensor_data[inst.info.roles[k]], inst.info))

\* handle_data once the payload is parsed
HandleParsed(inst, sensor_data) ==
    IF sensor_data.raised # ""
    THEN [inst |-> inst, steps |-> <<>>, raised |-> sensor_data.raised]
    ELSE ServicesFrom(inst, sensor_data.values, 1, <<>>)

\* handle_data without the is_device_enabled gate
handle_data_NoGate(inst, m) == HandleParsed(inst, parse_manufacturer_data(inst.info, m))

\* the instance after the call, the steps it took and the exception that
\* left it; nothing is decoded when no role of the device is enabled
handle_data(inst, m) ==
    IF ~is_device_enabled(inst)
    THEN [inst |-> inst, steps |-> <<>>, raised |-> ""]
    ELSE HandleParsed(inst, parse_manufacturer_data(inst.info, m))

----------------------------------------------------------------------------
(* DbusBleSensors._scan_callback                                           *)

\* BleDeviceTeltonika.MANUFACTURER_ID
MANUFACTURER_ID == 2202

\* BleDevice.DEVICE_CLASSES: the manufacturer ids that have a device class
DEVICE_CLASSES == {MANUFACTURER_ID}

\* a manufacturer id no device class declares
OtherId == MANUFACTURER_ID + 1

\* the roles _compute_regs can append
TelRoles == {"digitalinput", "temperature", "movement"}

\* list(set(roles)) when perm is the order the hash seed gives the roles
set_list(S, perm) == SelectSeq(perm, LAMBDA r : r \in S)

\* device.name of an advertisement: bleak gives None for a nameless device
DevNames == {"None", "EYE"}

\* device_class(dev_mac, dev_name) followed by configure(man_data)
TelInstance(m, perm, dev_name) ==
    [info |-> TelInfo(NewInfo(IF dev_name = "None" THEN "None" ELSE "str"),
                      set_list(Range(compute_regs(m).appended), perm),
                      compute_regs(m).regs),
     validated |-> FALSE,
     services |-> EmptyMap]

\* the roles init() makes a role service for: BleRole.get_instance(None) is
\* None and DbusRoleService.__init__ raises AttributeError on its get_name()
RECURSIVE ServedRoles(_, _)
ServedRoles(roles, k) ==
    IF k > Len(roles) \/ roles[k] = NoRole THEN {}
    ELSE {roles[k]} \cup ServedRoles(roles, k + 1)

\* init() after _check_configuration: ValueError, else one role service per
\* role is configured and registered with the stored value of its Enabled
Checked(inst, stored, report) ==
    IF report # Passes
    THEN [inst |-> inst, raised |-> "ValueError", key |-> report.key]
    ELSE [inst |-> [inst EXCEPT
                       !.validated = TRUE,
                       !.services = [r \in ServedRoles(inst.info.roles, 1) |->
                                        [NewService(r, inst.info) EXCEPT !.enabled = stored]]],
          raised |-> IF NoRole \in Range(inst.info.roles) THEN "AttributeError" ELSE "",
          key |-> ""]

\* init() after _load_configuration
Loaded(inst, stored, loaded) ==
    IF loaded.raised # ""
    THEN [inst |-> [inst EXCEPT !.info = loaded.info], raised |-> loaded.raised,
          key |-> loaded.key]
    ELSE Checked([inst EXCEPT !.info = loaded.info], stored,
                 check_configuration(loaded.info))

\* BleDevice.init
init(inst, stored) == Loaded(inst, stored, load_configuration(inst.info))

\* the instance kept in _known_mac before init() has returned
FirstTime_StoreBeforeInit(st, mac, made) ==
    [st EXCEPT !.known = Put(@, mac, made.inst),
               !.cb.constructed = TRUE,
               !.cb.init = IF made.raised = "" THEN "ok" ELSE made.raised,
               !.cb.raised = made.raised,
               !.failed = IF made.raised = "ValueError" THEN @ \cup {mac} ELSE @,
               !.inits[mac] = @ + 1]

\* the first-time branch once the instance is made: an exception of init()
\* leaves the callback before the instance is stored
FirstTime(st, mac, made) ==
    IF made.raised # ""
    THEN [st EXCEPT !.cb.constructed = TRUE,
                    !.cb.init = made.raised,
                    !.cb.raised = made.raised,
                    !.failed = IF made.raised = "ValueError" THEN @ \cup {mac} ELSE @,
                    !.inits[mac] = @ + 1]
    ELSE [st EXCEPT !.known = Put(@, mac, made.inst),
                    !.cb.constructed = TRUE,
                    !.cb.init = "ok",
                    !.inits[mac] = @ + 1]

\* what one call of handle_data did
Cycle(man_id, m, inst, done) ==
    [man_id |-> man_id, data |-> m, regs |-> inst.info.regs, roles |-> inst.info.roles,
     validated |-> inst.validated, decoded |-> is_device_enabled(inst),
     steps |-> done.steps, raised |-> done.raised]

\* the callback once handle_data has returned or raised
Handled(st, mac, man_id, m, inst, done) ==
    [st EXCEPT !.known[mac] = done.inst,
               !.cb.cycles = Append(@, Cycle(man_id, m, inst, done)),
               !.cb.raised = done.raised]

\* dev_instance.handle_data(man_data) at the end of the loop body
HandleItem(st, mac, man_id, m) ==
    Handled(st, mac, man_id, m, st.known[mac], handle_data(st.known[mac], m))

RECURSIVE ItemsFrom(_, _, _, _, _)

\* the loop body after the first-time branch
AfterFirst(first, a, k, perm, stored) ==
    IF first.cb.raised # "" THEN first
    ELSE ItemsFrom(HandleItem(first, a.mac, a.items[k][1], a.items[k][2]),
                   a, k + 1, perm, stored)

\* the loop over advertisement_data.manufacturer_data.items() from index k on
ItemsFrom(st, a, k, perm, stored) ==
    IF k > Len(a.items) \/ st.cb.raised # "" THEN st
    ELSE IF a.mac \notin DOMAIN st.known
        THEN IF a.items[k][1] \notin DEVICE_CLASSES
             THEN [st EXCEPT !.ignored = Append(@, a.mac)]
             ELSE AfterFirst(FirstTime(st, a.mac,
                                       init(TelInstance(a.items[k][2], perm, a.name), stored)),
                             a, k, perm, stored)
        ELSE ItemsFrom(HandleItem(st, a.mac, a.items[k][1], a.items[k][2]),
                       a, k + 1, perm, stored)

\* _scan_callback without the test of _ignored_mac at its head
scan_callback_NoIgnoredTest(st, a, perm, stored) ==
    IF Len(a.items) < 1 THEN [st EXCEPT !.ignored = Append(@, a.mac)]
    ELSE ItemsFrom(st, a, 1, perm, stored)

\* _scan_callback(device, advertisement_data)
scan_callback(st, a, perm, stored) ==
    IF \E k \in 1..Len(st.ignored) : st.ignored[k] = a.mac THEN st
    ELSE IF Len(a.items) < 1 THEN [st EXCEPT !.ignored = Append(@, a.mac)]
    ELSE ItemsFrom(st, a, 1, perm, stored)

----------------------------------------------------------------------------
(* The scanner: advertisements, the Enabled switches and the timers        *)

\* the payloads advertised under the Teltonika id: temperature and magnet
\* (two roles); temperature, humidity and the low battery bit; battery
\* voltage only (no role)
ScanPayloads == {TelPayload(5, MaxBody), TelPayload(67, MaxBody), TelPayload(128, MaxBody)}

\* the payload advertised under the other id
OtherPayload == TelPayload(3, 2)

\* advertisement_data.manufacturer_data in the order of its items
ItemLists ==
    {<<>>, << <<OtherId, OtherPayload>> >>}
    \cup {<< <<MANUFACTURER_ID, p>> >> : p \in ScanPayloads}
    \cup {<< <<MANUFACTURER_ID, TelPayload(5, MaxBody)>>, <<OtherId, OtherPayload>> >>,
          << <<OtherId, OtherPayload>>, <<MANUFACTURER_ID, TelPayload(67, MaxBody)>> >>}

Adverts == [mac : Macs, name : DevNames, items : ItemLists]

\* the keys of advertisement_data.manufacturer_data in the order of its items
ManIds(a) == [k \in 1..Len(a.items) |-> a.items[k][1]]

\* a canonical order, for callbacks that construct nothing
SomeOrder == CHOOSE q \in Orderings(TelRoles) : TRUE

\* the counters of the model stay within their bounds
Bounded(st) ==
    /\ \A m \in Macs : st.inits[m] <= MaxInits
    /\ \A m \in DOMAIN st.known :
          \A r \in DOMAIN st.known[m].services : st.known[m].services[r].stale <= MaxStale

Init ==
    /\ DecIdle
    /\ DevIdle
    /\ ScanIdle

\* the scanner after a callback that left it as st
Returned(st) ==
    /\ Bounded(st)
    /\ known_mac' = st.known
    /\ ignored_mac' = st.ignored
    /\ cb' = st.cb
    /\ failed' = st.failed
    /\ inits' = st.inits

\* bleak calls _scan_callback with one advertisement; the name, the hash
\* order and the stored Enabled only matter to a MAC that is not known
Advertise ==
    /\ \E a \in {x \in Adverts : x.mac \in DOMAIN known_mac => x.name = "EYE"} :
          \E perm \in (IF a.mac \in DOMAIN known_mac THEN {SomeOrder} ELSE Orderings(TelRoles)) :
             \E stored \in (IF a.mac \in DOMAIN known_mac THEN {0} ELSE {0, 1}) :
                Returned(scan_callback([known |-> known_mac, ignored |-> ignored_mac,
                                        cb |-> [NoCallback EXCEPT !.mac = a.mac,
                                                                  !.ids = ManIds(a)],
                                        failed |-> failed, inits |-> inits],
                                       a, perm, stored))
    /\ UNCHANGED decVars
    /\ UNCHANGED devVars

\* the Enabled item of one role is switched on the bus: the proxy callback
\* stores the value and calls BleDevice._on_enabled_changed
SetEnabled ==
    /\ \E mac \in DOMAIN known_mac :
          \E role \in DOMAIN known_mac[mac].services :
             LET svc == known_mac[mac].services[role]
                 flipped == [svc EXCEPT !.enabled = 1 - @]
                 after == IF flipped.enabled # 0 THEN connect(flipped) ELSE disconnect(flipped)
             IN  /\ after.stale <= MaxStale
                 /\ known_mac' = [known_mac EXCEPT ![mac].services[role] = after]
    /\ UNCHANGED <<ignored_mac, cb, failed, inits>>
    /\ UNCHANGED decVars
    /\ UNCHANGED devVars

\* DbusRoleService._connection_timeout: a pending timer task wakes up
TimerFires ==
    /\ \E mac \in DOMAIN known_mac :
          \E role \in DOMAIN known_mac[mac].services :
             LET svc == known_mac[mac].services[role]
             IN  \/ /\ svc.timer
                    /\ known_mac' = [known_mac EXCEPT ![mac].services[role] =
                                        disconnect([svc EXCEPT !.timer = FALSE])]
                 \/ /\ svc.stale > 0
                    /\ known_mac' = [known_mac EXCEPT ![mac].services[role] =
                                        disconnect([svc EXCEPT !.stale = @ - 1])]
    /\ UNCHANGED <<ignored_mac, cb, failed, inits>>
    /\ UNCHANGED decVars
    /\ UNCHANGED devVars

Next == Advertise \/ SetEnabled \/ TimerFires

Spec == Init /\ [][Next]_vars

----------------------------------------------------------------------------
(* Claims on the scanner                                                   *)

\* the calls of handle_data of the last callback that went past the
\* is_device_enabled gate
Decoded == {k \in 1..Len(cb.cycles) : cb.cycles[k].decoded}

\* C3: every decode cycle of the Teltonika device uses the register table and
\* the role list _compute_regs builds from the payload of that same call,
\* whatever payload was handed to configure
C3_TableOfPayload ==
    \A k \in Decoded :
        cb.cycles[k].man_id = MANUFACTURER_ID =>
            /\ cb.cycles[k].regs = compute_regs(cb.cycles[k].data).regs
            /\ Range(cb.cycles[k].roles) = Range(compute_regs(cb.cycles[k].data).appended)

\* C6: once init() has raised a configuration error for a MAC, no later
\* advertisement of that MAC constructs, configures or validates an instance
C6_FailedNotRetried ==
    [][\A mac \in Macs : mac \in failed => inits'[mac] = inits[mac]]_vars

\* C7: an instance is in _known_mac and receives handle_data only after its
\* validation in init() completed; when configure() or init() raised, the
\* instance is not stored and the callback calls no handle_data
C7_ValidatedBeforeData ==
    /\ \A mac \in DOMAIN known_mac : known_mac[mac].validated
    /\ \A k \in 1..Len(cb.cycles) : cb.cycles[k].validated
    /\ cb.init \notin {"none", "ok"} =>
          /\ cb.cycles = <<>>
          /\ cb.mac \notin DOMAIN known_mac

\* a MAC whose first init() raised is advertised again with a valid payload:
\* the instance is validated, stored, and decodes
C7_Witness ==
    /\ cb.mac \in failed
    /\ cb.init = "ok"
    /\ cb.mac \in DOMAIN known_mac
    /\ Decoded # {}

\* the steps of one role service in one cycle, in the claimed order
ExpectedSteps(role, alarms) ==
    << Step("role.update_data", role, ""), Step("device.update_data", role, ""),
       Step("_update_dbus_data", role, "") >>
    \o [k \in 1..Len(alarms) |-> Step("update_alarm", role, alarms[k].name)]
    \o << Step("connect", role, "") >>

RECURSIVE ExpectedCycle(_, _, _)
ExpectedCycle(roles, alarms, k) ==
    IF k > Len(roles) THEN <<>>
    ELSE ExpectedSteps(roles[k], RoleAlarms(roles[k]) \o alarms)
         \o ExpectedCycle(roles, alarms, k + 1)

----------------------------------------------------------------------------
(* Claims on the Teltonika register table                                  *)

\* the roles of the sections the flag byte of m includes
SectionRoles(m) ==
    (IF FlagBit(m, 2) = 1 THEN {"digitalinput"} ELSE {})
    \cup (IF FlagBit(m, 0) = 1 \/ FlagBit(m, 1) = 1 THEN {"temperature"} ELSE {})
    \cup (IF FlagBit(m, 4) = 1 \/ FlagBit(m, 5) = 1 THEN {"movement"} ELSE {})

\* of the section bits only the temperature bit is set
OnlyTemperature(m) ==
    /\ FlagBit(m, 0) = 1
    /\ \A b \in {1, 2, 4, 5, 7} : FlagBit(m, b) = 0

\* C11: the role list configure leaves is the duplicate-free union of the
\* roles of the included sections; with only the temperature bit set the
\* table is Version, EyeFlags, LowBattery, Temperature at offset 2 and the
\* role list is exactly temperature
C11_RolesOfSections ==
    (cls = "teltonika" /\ dop = "configured") =>
        /\ Range(info.roles) = SectionRoles(payload)
        /\ \A j, k \in 1..Len(info.roles) : info.roles[j] = info.roles[k] => j = k
        /\ OnlyTemperature(payload) =>
              /\ [k \in 1..Len(info.regs) |-> <<info.regs[k].name, info.regs[k].offset>>]
                    = << <<"Version", 0>>, <<"EyeFlags", 1>>, <<"LowBattery", 1>>,
                         <<"Temperature", 2>> >>
              /\ info.roles = <<"temperature">>

\* temperature and humidity both append temperature: the list holds it once
C11_Witness ==
    /\ cls = "teltonika"
    /\ dop = "configured"
    /\ FlagBit(payload, 0) = 1
    /\ FlagBit(payload, 1) = 1
    /\ FlagBit(payload, 4) = 1
    /\ Len(info.roles) = 2

----------------------------------------------------------------------------
(* Validation applied to the configurations classes may declare            *)

\* a dictionary without one of its keys
Without(d, key) == [k \in DOMAIN d \ {key} |-> d[k]]

\* a dictionary whose value at key is of another kind than expected
Unkind(kind, key) ==
    [kind EXCEPT ![key] = IF @ = "int" THEN "str" ELSE IF @ = "str" THEN "int" ELSE "dict"]

\* a complete kind map and the ones with one key missing, None or of the wrong kind
KindsOf(good) ==
    {good}
    \cup {Without(good, key) : key \in DOMAIN good}
    \cup {[good EXCEPT ![key] = "None"] : key \in DOMAIN good}
    \cup {Unkind(good, key) : key \in DOMAIN good}

ByteReg(name) == Reg(name, "Byte", 0, {}, {}, {}, {}, {}, NoFlags, "", {}, {})
StringReg(name, bits) == Reg(name, "String", 0, bits, {}, {}, {}, {}, NoFlags, "", {}, {})

\* the String registers: bits missing, 8, 16, 12, 0, -8 and the float 8.0
ConfigStrings ==
    {StringReg("S", bits) : bits \in {{}, {8}, {16}, {12}, {0}, {-8}}}
    \cup {[k \in DOMAIN StringReg("S", {8}) \cup {"kind"} |->
             IF k = "kind" THEN [bits |-> "float"] ELSE StringReg("S", {8})[k]]}

\* registers with a defect outside bits, and with roles of their own
ConfigOthers ==
    {Without(ByteReg("B"), key) : key \in {"name", "type", "offset"}}
    \cup {[ByteReg("B") EXCEPT !.type = "Float"]}
    \cup {[ByteReg("B") EXCEPT !.roles = {ro}] :
             ro \in {<<"ghost">>, <<NoRole>>, <<"tank">>, <<"tank", "ghost">>}}

ConfigRegLists ==
    {<<>>, <<ByteReg("A")>>}
    \cup {<<r>> : r \in ConfigStrings \cup ConfigOthers}
    \cup {<<ByteReg("A"), r>> : r \in ConfigStrings}

ConfigRoleLists == {<<>>, <<"tank">>, <<"ghost">>, <<"tank", NoRole>>}

GoodSetting == Setting("/Limit", 0, 0, 1)

ConfigSettingLists ==
    {<<>>, <<GoodSetting>>}
    \cup {<<Without(GoodSetting, key)>> : key \in {"name", "props"}}
    \cup {<<[GoodSetting EXCEPT !.props = Without(@, key)]>> : key \in {"def", "min", "max"}}
    \cup {<<GoodSetting, Without(GoodSetting, "props")>>}

GoodAlarm == Alarm("/Alarms/LowBattery", "_get_low_battery_state")

ConfigAlarmLists ==
    {<<>>, <<GoodAlarm>>}
    \cup {<<Without(GoodAlarm, key)>> : key \in {"name", "update"}}
    \cup {<<GoodAlarm, Without(GoodAlarm, "update")>>}

\* a list is held only under a key whose value is a list
ListAt(kind, key, q) == IF key \in DOMAIN kind /\ kind[key] = "list" THEN q ELSE <<>>

\* the device configurations: self.info when init() is called
Configs ==
    {Info(kind, ListAt(kind, "roles", ro), ListAt(kind, "regs", rg),
          ListAt(kind, "settings", st), ListAt(kind, "alarms", al)) :
        kind \in KindsOf(GoodKind), ro \in ConfigRoleLists, rg \in ConfigRegLists,
        st \in {q \in ConfigSettingLists : Len(q) < 2},
        al \in {q \in ConfigAlarmLists : Len(q) < 2}}

GoodRoleKind ==
    [name |-> "str", dev_instance |-> "int", settings |-> "list", alarms |-> "list"]

\* the role configurations: a role's info when load_instances checks it
RoleConfigs ==
    {[kind |-> kind, settings |-> ListAt(kind, "settings", st),
      alarms |-> ListAt(kind, "alarms", al)] :
        kind \in KindsOf(GoodRoleKind), st \in ConfigSettingLists, al \in ConfigAlarmLists}

ConfigInit ==
    /\ DecIdle
    /\ ScanIdle
    /\ payload = <<>>
    /\ res = <<>>
    /\ dop = "new"
    /\ \/ /\ cls = "config"
          /\ info \in Configs
       \/ /\ cls = "role"
          /\ info \in RoleConfigs

\* BleDevice.init() on a configured instance
InitDevice ==
    /\ cls = "config"
    /\ dop = "new"
    /\ res' = init([info |-> info, validated |-> FALSE, services |-> EmptyMap], 0)
    /\ dop' = "inited"
    /\ UNCHANGED <<cls, info, payload>>
    /\ UNCHANGED decVars
    /\ UNCHANGED scanVars

\* instance.check_configuration() of BleRole.load_instances
CheckRole ==
    /\ cls = "role"
    /\ dop = "new"
    /\ res' = role_check_configuration(info)
    /\ dop' = "checked"
    /\ UNCHANGED <<cls, info, payload>>
    /\ UNCHANGED decVars
    /\ UNCHANGED scanVars

ConfigNext == InitDevice \/ CheckRole

SpecConfig == ConfigInit /\ [][ConfigNext]_vars

----------------------------------------------------------------------------
(* Claims on validation                                                    *)

\* the keys of q that a kind map lacks or holds as None
Defective(kind, q) == {key \in Range(q) : key \notin DOMAIN kind \/ kind[key] = "None"}

\* C13: init() on a configuration with a mandatory key missing or None
\* raises ValueError naming such a key, and no role service has been created
C13_MandatoryKeys ==
    (cls = "config" /\ dop = "inited" /\ Defective(info.kind, MandatoryKeys) # {}) =>
        /\ res.raised = "ValueError"
        /\ res.key \in Defective(info.kind, MandatoryKeys)
        /\ res.inst.services = EmptyMap

\* bits of a String register is an integer and a positive multiple of 8
GoodStringBits(r) ==
    /\ r.bits # {}
    /\ ~("kind" \in DOMAIN r)
    /\ Get(r.bits) > 0
    /\ Get(r.bits) % 8 = 0

\* C14: a configuration passes validation only if bits of each of its String
\* registers is an integer and a positive multiple of 8 (missing, non-integer,
\* not a multiple of 8, zero and negative are rejected)
C14_StringBits ==
    (cls = "config" /\ dop = "inited" /\ res.raised \in {"", "AttributeError"}) =>
        \A k \in 1..Len(info.regs) :
            info.regs[k].type = "String" => GoodStringBits(info.regs[k])

\* every role the configuration names is a registered role or None
RolesRegistered(i) ==
    /\ \A r \in Range(i.roles) : r \in ROLE_INSTANCE \cup {NoRole}
    /\ \A k \in 1..Len(i.regs) :
          i.regs[k].roles # {} =>
              \A r \in Range(Get(i.regs[k].roles)) : r \in ROLE_INSTANCE \cup {NoRole}

\* C17: a configuration that passes _check_configuration names only
\* registered roles or None, in its roles list and in the roles of its
\* registers; one that names another role is rejected with ValueError
C17_RolesRegistered ==
    (cls = "config" /\ dop = "inited") =>
        /\ res.raised \in {"", "AttributeError"} => RolesRegistered(info)
        /\ (~RolesRegistered(info) /\ load_configuration(info).raised = "") =>
              res.raised = "ValueError"

\* a register names a registered role and an unregistered one: rejected for
\* its roles
C17_Witness ==
    /\ cls = "config"
    /\ dop = "inited"
    /\ res.raised = "ValueError"
    /\ res.key = "roles"
    /\ info.roles = <<"tank", NoRole>>
    /\ Len(info.regs) = 1
    /\ "roles" \in DOMAIN info.regs[1]
    /\ info.regs[1].roles = {<<"tank", "ghost">>}

BadSetting(st) ==
    \/ ~({"name", "props"} \subseteq DOMAIN st)
    \/ ~({"def", "min", "max"} \subseteq DOMAIN st.props)

BadAlarm(al) == ~({"name", "update"} \subseteq DOMAIN al)

\* a setting or an alarm of the configuration lacks one of its keys
BadEntries(i) ==
    \/ \E k \in 1..Len(i.settings) : BadSetting(i.settings[k])
    \/ \E k \in 1..Len(i.alarms) : BadAlarm(i.alarms[k])

\* a device configuration with no defect at all
ValidConfig(i) ==
    /\ i.kind = GoodKind
    /\ Len(i.roles) >= 1
    /\ Len(i.regs) >= 1
    /\ \A k \in 1..Len(i.regs) :
          /\ {"name", "type", "offset"} \subseteq DOMAIN i.regs[k]
          /\ i.regs[k].type \in ALLOWED_TYPES
          /\ i.regs[k].type = "String" => GoodStringBits(i.regs[k])
    /\ RolesRegistered(i)
    /\ ~BadEntries(i)

\* C18: validation of a device configuration rejects with ValueError a missing
\* regs key, a setting lacking name, props, def, min or max and an alarm
\* lacking name or update; validation of a role configuration rejects the
\* same settings and alarms; a configuration without any defect is accepted
C18_EntriesChecked ==
    /\ (cls = "config" /\ dop = "inited" /\ load_configuration(info).raised = "") =>
          /\ ("regs" \notin DOMAIN info.kind \/ BadEntries(info)) => res.raised = "ValueError"
          /\ ValidConfig(info) => res.raised # "ValueError"
    /\ (cls = "role" /\ dop = "checked" /\ "name" \in DOMAIN info.kind) =>
          /\ BadEntries(info) => RoleRaised(res) = "ValueError"
          /\ (info.kind = GoodRoleKind /\ ~BadEntries(info)) => RoleRaised(res) = ""

\* a role whose second alarm has no update key is rejected for that key
C18_Witness ==
    /\ cls = "role"
    /\ dop = "checked"
    /\ Len(info.alarms) = 2
    /\ BadAlarm(info.alarms[2])
    /\ ~BadEntries([info EXCEPT !.alarms = <<>>])
    /\ RoleRaised(res) = "ValueError"
    /\ res.report.key = "update"


----------------------------------------------------------------------------
(* Claims on MACs without a device class                                   *)

\* the MACs of _ignored_mac
Ignored(list) == Range(list)

\* the last callback constructed no instance and called no handle_data
DidNothing == ~cb.constructed /\ cb.init = "none" /\ cb.cycles = <<>>

\* C15: a callback whose first manufacturer id has no device class, for a MAC
\* without instance, records the MAC in _ignored_mac and creates no instance;
\* every callback for a MAC of _ignored_mac constructs, configures and
\* initialises nothing and calls no handle_data
C15_UnknownIgnored ==
    /\ [](cb.mac \in Ignored(ignored_mac) => DidNothing)
    /\ [][/\ (/\ cb'.mac \notin DOMAIN known_mac
              /\ cb'.ids # <<>>
              /\ cb'.ids[1] \notin DEVICE_CLASSES) =>
                  /\ cb'.mac \in Ignored(ignored_mac')
                  /\ cb'.mac \notin DOMAIN known_mac'
          /\ \A mac \in Ignored(ignored_mac) :
                /\ inits'[mac] = inits[mac]
                /\ mac \notin DOMAIN known_mac => mac \notin DOMAIN known_mac'
                /\ mac \in Ignored(ignored_mac')]_vars

\* C15 as first stated: a callback for a MAC without instance whose
\* advertisement carries, at any position, a manufacturer id without device
\* class records the MAC in _ignored_mac and creates no instance
C15_AnyUnknownId ==
    [][(/\ cb'.mac \notin DOMAIN known_mac
        /\ \E k \in 1..Len(cb'.ids) : cb'.ids[k] \notin DEVICE_CLASSES) =>
            /\ cb'.mac \in Ignored(ignored_mac')
            /\ cb'.mac \notin DOMAIN known_mac']_vars

\* a MAC without instance is ignored, and the last advertisement of it that
\* did nothing carried the unknown id followed by the Teltonika id
C15_Witness ==
    /\ cb.ids = <<OtherId, MANUFACTURER_ID>>
    /\ ignored_mac = <<cb.mac>>
    /\ cb.mac \notin DOMAIN known_mac
    /\ inits[cb.mac] = 0
    /\ DidNothing


----------------------------------------------------------------------------
(* Claims on the steps of load_int                                         *)

\* load_int got past the width and the length of the register
Read == op = "load_int" /\ RegBits(reg) # {} /\ Len(data) >= SpanEnd(reg)

\* the register declares no post action
NoPost(r) ==
    r.scale = {} /\ r.bias = {} /\ r.xlate = "" /\ "REG_FLAG_INVALID" \notin r.flags

\* C16: with a shift, the value load_int holds after the mask and the shift
\* and trim lies in 0 .. 2^bits - 1, whatever the payload, the mask, the byte
\* order and the sign of the raw integer; it is the value returned when the
\* register declares no post action
C16_TrimmedRange ==
    (Read /\ reg.shift # {}) =>
        /\ MaskShift(reg, RawInt(reg, data), Get(RegBits(reg)))
               \in 0..((2 ^ Get(RegBits(reg))) - 1)
        /\ NoPost(reg) =>
              /\ out.k = "num"
              /\ out.d = 1
              /\ out.n \in 0..((2 ^ Get(RegBits(reg))) - 1)

\* a negative big-endian raw integer whose shift alone is out of the range
C16_Witness ==
    /\ Read
    /\ reg.shift # {} /\ reg.bits = {4} /\ reg.mask = {}
    /\ reg.type = "Int16" /\ "REG_FLAG_BIG_ENDIAN" \in reg.flags
    /\ RawInt(reg, data) < 0
    /\ RawInt(reg, data) \div (2 ^ Get(reg.shift)) < 0
    /\ out = NumVal(RatInt(8))

\* the value after mask, shift, scale, bias and xlate
Transformed(r, v) ==
    LET a == IF r.mask # {} THEN BitAnd(v, Get(r.mask)) ELSE v
        b == IF r.shift # {}
             THEN (a \div (2 ^ Get(r.shift))) % (2 ^ Get(RegBits(r))) ELSE a
        c == IF r.scale # {} /\ Get(r.scale) # RatInt(0)
             THEN RatDiv(RatInt(b), Get(r.scale)) ELSE RatInt(b)
        d == IF r.bias # {} THEN RatAdd(c, Get(r.bias)) ELSE c
    IN  IF r.xlate # "" THEN Xlate(r.xlate, d) ELSE d

\* a Byte at offset 0 with REG_FLAG_INVALID, inval = 255 and nothing else
InvalByte == Reg("Field", "Byte", 0, {}, {}, {}, {}, {}, INV, "", {RatInt(255)}, {})

\* C19: with REG_FLAG_INVALID and inval = v, load_int returns None exactly
\* when the value after mask, shift, scale, bias and xlate equals v and
\* returns that value otherwise (inval = 255: byte 255 gives None, byte 1
\* gives 1); without the flag it returns that value, never None
C19_Invalidate ==
    Read =>
        /\ ("REG_FLAG_INVALID" \in reg.flags /\ reg.inval # {}) =>
              /\ out = NoneVal <=> Transformed(reg, RawInt(reg, data)) = Get(reg.inval)
              /\ out # NoneVal => out = NumVal(Transformed(reg, RawInt(reg, data)))
        /\ "REG_FLAG_INVALID" \notin reg.flags =>
              out = NumVal(Transformed(reg, RawInt(reg, data)))
        /\ (reg = InvalByte /\ data[1] = 255) => out = NoneVal
        /\ (reg = InvalByte /\ data[1] = 1) => out = NumVal(RatInt(1))

\* the byte 255 read with inval = 255
C19_Witness ==
    /\ Read
    /\ reg = InvalByte
    /\ data = <<255>>
    /\ out = NoneVal

\* the weight of byte k of a span of n bytes
Weight(k, n, big) == 256 ^ (IF big THEN n - k ELSE k - 1)

RECURSIVE WeightedSum(_, _, _)
WeightedSum(b, k, big) ==
    IF k > Len(b) THEN 0
    ELSE b[k] * Weight(k, Len(b), big) + WeightedSum(b, k + 1, big)

\* the span read in the byte order the flags name, two's complement for the
\* signed types
SpanInt(r, md) ==
    LET b == SubSeq(md, r.offset + 1, SpanEnd(r))
        u == WeightedSum(b, 1, "REG_FLAG_BIG_ENDIAN" \in r.flags)
    IN  IF r.type \in {"Int16", "Int32", "Int64"} /\ u >= 2 ^ (8 * Len(b) - 1)
        THEN u - 2 ^ (8 * Len(b))
        ELSE u

\* a UInt16 at offset 0 with the flags f and nothing else
Word(f) == Reg("Field", "UInt16", 0, {}, {}, {}, {}, {}, f, "", {}, {})

\* C20: load_int reads the span of the register as a big-endian integer iff
\* REG_FLAG_BIG_ENDIAN is in its flags, little-endian otherwise, and signed
\* iff its type is Int16, Int32 or Int64; the bytes 1, 2 read as UInt16 give
\* 513 without the flag and 258 with it
C20_ByteOrder ==
    (Read /\ reg.mask = {} /\ reg.shift = {} /\ NoPost(reg)) =>
        /\ out = NumVal(RatInt(SpanInt(reg, data)))
        /\ (reg = Word(NoFlags) /\ data = <<1, 2>>) => out = NumVal(RatInt(513))
        /\ (reg = Word(BE) /\ data = <<1, 2>>) => out = NumVal(RatInt(258))

\* the bytes 1, 2 read as a big-endian UInt16
C20_Witness ==
    /\ Read
    /\ reg = Word(BE)
    /\ data = <<1, 2>>
    /\ out = NumVal(RatInt(258))


----------------------------------------------------------------------------
(* Claims on the role services of the scanner                              *)

\* the role services of the known devices
Services ==
    UNION {{<<mac, role>> : role \in DOMAIN known_mac[mac].services} : mac \in DOMAIN known_mac}

\* C22: at most one inactivity timer is pending per role service, the one the
\* most recent connect() started: no pending _connection_timeout task is left
\* that _dbus_service_timer does not refer to
C22_OneTimer ==
    \A s \in Services : known_mac[s[1]].services[s[2]].stale = 0

\* C23: a connected role service has its own Enabled item set
C23_ConnectedEnabled ==
    \A s \in Services :
        known_mac[s[1]].services[s[2]].connected =>
            known_mac[s[1]].services[s[2]].enabled # 0

\* C24: no MAC is in _known_mac and in _ignored_mac
C24_KnownNotIgnored == DOMAIN known_mac \cap Ignored(ignored_mac) = {}

\* C25: every payload handed to handle_data was advertised under the
\* manufacturer id of the class of the instance
C25_OwnPayloads ==
    \A k \in 1..Len(cb.cycles) : cb.cycles[k].man_id = MANUFACTURER_ID


\* nothing was written to the role service, it was not connected and no
\* timer was started between before and after
Untouched(before, after) ==
    /\ after.published = before.published
    /\ after.connected => before.connected
    /\ after.timer => before.timer
    /\ after.stale <= before.stale

\* C26: handle_data on a device none of whose roles is enabled runs no hook,
\* no write and no alarm callback, and as long as no role of a device is
\* enabled no published value or alarm of its role services changes, none is
\* connected and no inactivity timer is started
C26_DisabledUntouched ==
    /\ [](\A k \in 1..Len(cb.cycles) :
             ~cb.cycles[k].decoded =>
                 cb.cycles[k].steps = <<>> /\ cb.cycles[k].raised = "")
    /\ [][\A mac \in DOMAIN known_mac' :
             ~is_device_enabled(known_mac'[mac]) =>
                 IF mac \in DOMAIN known_mac
                 THEN ~is_device_enabled(known_mac[mac]) =>
                          \A role \in DOMAIN known_mac[mac].services :
                              Untouched(known_mac[mac].services[role],
                                        known_mac'[mac].services[role])
                 ELSE \A role \in DOMAIN known_mac'[mac].services :
                          /\ ~known_mac'[mac].services[role].connected
                          /\ ~known_mac'[mac].services[role].timer]_vars

\* a device that published a temperature and was disabled since gets
\* handle_data once more
C26_Witness ==
    /\ cb.init = "none"
    /\ Len(cb.cycles) = 1
    /\ ~cb.cycles[1].decoded
    /\ cb.cycles[1].man_id = MANUFACTURER_ID
    /\ cb.mac \in DOMAIN known_mac
    /\ "temperature" \in DOMAIN known_mac[cb.mac].services
    /\ "/Temperature" \in DOMAIN known_mac[cb.mac].services["temperature"].published
    /\ ~known_mac[cb.mac].services["temperature"].connected


\* the paths the alarms of a role service are published at
AlarmPaths(inst, role) ==
    {ClearPath((RoleAlarms(role) \o inst.info.alarms)[k].name) :
        k \in 1..Len(RoleAlarms(role) \o inst.info.alarms)}

\* the paths of the names in the value map of a role for the payload m
MapPaths(inst, role, m) ==
    {ClearPath(n) : n \in DOMAIN parse_manufacturer_data(inst.info, m).values[role]}

\* the paths the decode cycles of the last callback had a value for
CyclePaths(c, inst, role) ==
    UNION {MapPaths(inst, role, c.cycles[k].data) :
              k \in {j \in 1..Len(c.cycles) : c.cycles[j].decoded}}

\* C28: a published path of a role service changes only in a callback for
\* its device, and only if it is an alarm path or the path of a name present
\* in the value map of a decode cycle of that callback; no path is removed;
\* after a single decode cycle every name of the map is published with the
\* value of the map
C28_AbsentKept ==
    /\ [][\A mac \in DOMAIN known_mac :
             \A role \in DOMAIN known_mac[mac].services :
                 \A path \in DOMAIN known_mac[mac].services[role].published :
                     /\ path \in DOMAIN known_mac'[mac].services[role].published
                     /\ known_mac'[mac].services[role].published[path]
                            # known_mac[mac].services[role].published[path] =>
                           /\ cb'.mac = mac
                           /\ path \in AlarmPaths(known_mac[mac], role)
                                         \cup CyclePaths(cb', known_mac[mac], role)]_vars
    /\ []((/\ cb.mac \in DOMAIN known_mac
           /\ Len(cb.cycles) = 1
           /\ cb.cycles[1].decoded
           /\ cb.cycles[1].raised = "") =>
              \A role \in DOMAIN known_mac[cb.mac].services :
                  \A n \in DOMAIN parse_manufacturer_data(known_mac[cb.mac].info,
                                                          cb.cycles[1].data).values[role] :
                      GetValue(known_mac[cb.mac].services[role].published, n)
                          = parse_manufacturer_data(known_mac[cb.mac].info,
                                                    cb.cycles[1].data).values[role][n])

\* after a decode cycle whose value map has no Humidity (the payload ends
\* before it) the role service still publishes the humidity decoded earlier
C28_Witness ==
    /\ cb.mac \in DOMAIN known_mac
    /\ cb.init = "none"
    /\ Len(cb.cycles) = 1
    /\ cb.cycles[1].decoded
    /\ cb.cycles[1].raised = ""
    /\ "temperature" \in DOMAIN known_mac[cb.mac].services
    /\ "/Humidity" \in DOMAIN known_mac[cb.mac].services["temperature"].published
    /\ "/Humidity" \notin MapPaths(known_mac[cb.mac], "temperature", cb.cycles[1].data)
    /\ "/Temperature" \in MapPaths(known_mac[cb.mac], "temperature", cb.cycles[1].data)

----------------------------------------------------------------------------
(* A tank sensor: levels advertised and alarm settings changed             *)

\* a device class with the role tank and one register, the level in percent
TankInfo ==
    Info(GoodKind, <<TankRole>>,
         << Reg("Level", "Byte", 0, {}, {}, {}, {}, {}, {}, "", {}, {}) >>, <<>>, <<>>)

\* the levels advertised, below, at, between and above the thresholds
Levels == {5, 10, 12, 15, 50, 80, 85, 90, 95}

\* the payloads of the tank sensor: one byte of level, or nothing
TankPayloads == {<<>>} \cup {<<l>> : l \in Levels}

\* the values the settings of the tank alarms are changed to
TankChoices ==
    {<<"/Alarms/High/Enable", v>> : v \in {0, 1}}
    \cup {<<"/Alarms/Low/Enable", v>> : v \in {0, 1}}
    \cup {<<"/Alarms/High/Restore", v>> : v \in {80, 90}}
    \cup {<<"/Alarms/Low/Restore", v>> : v \in {10, 15}}

TankMac == CHOOSE m \in Macs : TRUE

\* the manufacturer id the tank sensor advertises under
TankId == OtherId

\* the tank sensor was advertised and initialised, its role is enabled
TankInit ==
    /\ DecIdle
    /\ DevIdle
    /\ known_mac = [m \in {TankMac} |->
                       init([info |-> TankInfo, validated |-> FALSE,
                             services |-> EmptyMap], 1).inst]
    /\ ignored_mac = <<>>
    /\ cb = NoCallback
    /\ failed = {}
    /\ inits = [m \in Macs |-> IF m = TankMac THEN 1 ELSE 0]

\* _scan_callback with one advertisement of the tank sensor
TankData ==
    /\ \E m \in TankPayloads :
          Returned(scan_callback([known |-> known_mac, ignored |-> ignored_mac,
                                  cb |-> [NoCallback EXCEPT !.mac = TankMac,
                                                            !.ids = <<TankId>>],
                                  failed |-> failed, inits |-> inits],
                                 [mac |-> TankMac, name |-> "EYE",
                                  items |-> << <<TankId, m>> >>],
                                 SomeOrder, 0))
    /\ dop' = "data"
    /\ UNCHANGED <<cls, info, payload, res>>
    /\ UNCHANGED decVars

\* a setting of the tank alarms is changed on the bus: the proxy item of the
\* role service takes the value
TankSetting ==
    /\ \E c \in TankChoices :
          known_mac' = [known_mac EXCEPT ![TankMac].services[TankRole].published =
                           SetValue(@, c[1], IntVal(c[2]))]
    /\ dop' = "setting"
    /\ UNCHANGED <<ignored_mac, cb, failed, inits>>
    /\ UNCHANGED <<cls, info, payload, res>>
    /\ UNCHANGED decVars

TankNext == TankData \/ TankSetting

SpecTank == TankInit /\ [][TankNext]_vars

\* what the role service of the tank publishes at a path, as an integer
Tank(path) == GetValue(known_mac[TankMac].services[TankRole].published, path).n

\* a data update of the tank came back without exception and left a level
TankUpdated(raised, published) == raised = "" /\ "/Level" \in DOMAIN published

\* C27: at every data update of a tank with a level, the alarm states are 0
\* or 1; with /Alarms/High/Enable set, /Alarms/High/State goes from 0 to 1
\* exactly when Level > Active and stays 1 exactly when Level > Restore; with
\* /Alarms/Low/Enable set, /Alarms/Low/State goes from 0 to 1 exactly when
\* Level < Active and stays 1 exactly when Level < Restore; with Enable at 0
\* the state is 0
C27_Hysteresis ==
    [][(dop' = "data" /\ TankUpdated(cb'.raised,
                                      known_mac'[TankMac].services[TankRole].published)) =>
          /\ Tank("/Alarms/High/State")' \in {0, 1}
          /\ Tank("/Alarms/Low/State")' \in {0, 1}
          /\ IF Tank("/Alarms/High/Enable") = 0
             THEN Tank("/Alarms/High/State")' = 0
             ELSE IF Tank("/Alarms/High/State") = 0
                  THEN Tank("/Alarms/High/State")' = 1
                           <=> Tank("/Level")' > Tank("/Alarms/High/Active")
                  ELSE Tank("/Alarms/High/State")' = 1
                           <=> Tank("/Level")' > Tank("/Alarms/High/Restore")
          /\ IF Tank("/Alarms/Low/Enable") = 0
             THEN Tank("/Alarms/Low/State")' = 0
             ELSE IF Tank("/Alarms/Low/State") = 0
                  THEN Tank("/Alarms/Low/State")' = 1
                           <=> Tank("/Level")' < Tank("/Alarms/Low/Active")
                  ELSE Tank("/Alarms/Low/State")' = 1
                           <=> Tank("/Level")' < Tank("/Alarms/Low/Restore")]_vars

\* the high alarm is still raised at a level between Restore and Active
C27_Witness ==
    /\ dop = "data"
    /\ cb.raised = ""
    /\ Tank("/Alarms/High/Enable") = 1
    /\ Tank("/Alarms/High/Active") = 90
    /\ Tank("/Alarms/High/Restore") = 80
    /\ Tank("/Level") = 85
    /\ Tank("/Alarms/High/State") = 1


----------------------------------------------------------------------------
(* BleRole.load_instances and BleRole.get_instance                         *)

MaxModules == 3

\* a module ble_role_*.py: its first BleRole subclass, by the name its info
\* holds and the configuration check_configuration sees
RoleModule(id, name, config) == [id |-> id, name |-> name, config |-> config]

\* ble_role_tank.py, a second module whose role is also named tank, a sound
\* role temperature, and a role whose alarm has no update callback
RoleModules ==
    { RoleModule("ble_role_tank", TankRole,
                 [kind |-> GoodRoleKind, settings |-> TankSettings, alarms |-> TankAlarms]),
      RoleModule("ble_role_tank2", TankRole,
                 [kind |-> GoodRoleKind, settings |-> <<>>, alarms |-> <<>>]),
      RoleModule("ble_role_temperature", "temperature",
                 [kind |-> GoodRoleKind, settings |-> <<>>, alarms |-> <<>>]),
      RoleModule("ble_role_battery", "battery",
                 [kind |-> GoodRoleKind, settings |-> <<>>,
                  alarms |-> <<Without(GoodAlarm, "update")>>]) }

\* os.listdir: the modules present, in any order
ModuleLists ==
    {q \in UNION {[1..n -> RoleModules] : n \in 0..MaxModules} :
        \A i, j \in 1..Len(q) : i # j => q[i] # q[j]}

\* BleRole.get_instance
get_instance(registry, role_name) ==
    IF role_name \in DOMAIN registry THEN registry[role_name] ELSE "None"

\* BleRole._ROLE_INSTANCE is empty when load_instances starts
RegistryInit ==
    /\ DecIdle
    /\ ScanIdle
    /\ cls = "registry"
    /\ info \in ModuleLists
    /\ payload = <<>>
    /\ res = [registry |-> EmptyMap, asked |-> "", found |-> "None", raised |-> ""]
    /\ dop = "loading"

\* load_instances once check_configuration of the role of a module returned
\* or raised
ModuleChecked(p, raised) ==
    IF raised # ""
    THEN /\ res' = [res EXCEPT !.raised = raised]
         /\ dop' = "raised"
         /\ info' = info
    ELSE /\ res' = [res EXCEPT !.registry = Put(@, p.name, p.id)]
         /\ dop' = "loading"
         /\ info' = Tail(info)

\* one turn of the loop of load_instances over the modules
LoadModule ==
    /\ dop = "loading"
    /\ info # <<>>
    /\ ModuleChecked(Head(info), RoleRaised(role_check_configuration(Head(info).config)))
    /\ UNCHANGED <<cls, payload>>
    /\ UNCHANGED decVars
    /\ UNCHANGED scanVars

\* load_instances returns
LoadDone ==
    /\ dop = "loading"
    /\ info = <<>>
    /\ dop' = "loaded"
    /\ UNCHANGED <<cls, info, payload, res>>
    /\ UNCHANGED decVars
    /\ UNCHANGED scanVars

\* after the load a device looks a role up: _check_configuration and init()
GetInstance ==
    /\ dop = "loaded"
    /\ \E name \in ROLE_INSTANCE \cup {"ghost"} :
          res' = [res EXCEPT !.asked = name, !.found = get_instance(res.registry, name)]
    /\ UNCHANGED <<cls, info, payload, dop>>
    /\ UNCHANGED decVars
    /\ UNCHANGED scanVars

RegistryNext == LoadModule \/ LoadDone \/ GetInstance

SpecRegistry == RegistryInit /\ [][RegistryNext]_vars

\* the registry holds only roles whose check_configuration returned
OnlyChecked ==
    \A n \in DOMAIN res.registry :
        \E p \in RoleModules :
            /\ p.id = res.registry[n]
            /\ p.name = n
            /\ RoleRaised(role_check_configuration(p.config)) = ""

\* a lookup gave the registered role or None
LookedUp ==
    res.asked # "" =>
        res.found = (IF res.asked \in DOMAIN res.registry
                     THEN res.registry[res.asked] ELSE "None")

\* no step removes an entry, and no step after the load changes the registry
NothingRemoved ==
    /\ DOMAIN res.registry \subseteq DOMAIN res'.registry
    /\ dop = "loaded" => res'.registry = res.registry

\* C21: the registry holds only roles whose check_configuration succeeded, a
\* lookup returns the registered role or None, no step of the load replaces
\* or removes an entry already registered, and no step after the load
\* changes the registry
C21_AppendOnly ==
    /\ [](OnlyChecked /\ LookedUp)
    /\ [][/\ NothingRemoved
          /\ \A n \in DOMAIN res.registry : res'.registry[n] = res.registry[n]]_vars

====
